---- MODULE Spec2Model ----
(***************************************************************************)
(* A model of the Kavastu backtesting engine (src/src/backtester.py) and   *)
(* of the scoring and regime logic it calls.                               *)
(*                                                                         *)
(* Money is counted in ticks of 1/TicksPerSEK SEK, so that a transaction   *)
(* cost of 0.25% of a whole-SEK price is an exact integer.  Share prices   *)
(* are whole SEK.  A date is the integer YYYYMMDD, which orders as the     *)
(* calendar does.                                                          *)
(***************************************************************************)
EXTENDS Integers, Sequences, FiniteSets, TLC

\* transaction_cost = 0.0025 = 1/400: one tick is 1/400 SEK.
TicksPerSEK == 400

\* The universe handed to backtest_strategy (stocks).
Tickers == {"A", "B", "C"}

(***************************************************************************)
(* Arithmetic helpers.                                                     *)
(***************************************************************************)
RECURSIVE GCD(_, _)
GCD(a, b) == IF b = 0 THEN a ELSE GCD(b, a % b)

\* floor(a * n / d) for a >= 0, n >= 0, d > 0, without forming a * n.
MulDivFloor(a, n, d) == (a \div d) * n + ((a % d) * n) \div d

\* A rational number num/den in lowest terms, den > 0.
Rat(n, d) == LET g == GCD(IF n < 0 THEN -n ELSE n, d)
             IN  IF g = 0 THEN [num |-> 0, den |-> 1]
                 ELSE [num |-> n \div g, den |-> d \div g]

RECURSIVE SumSeq(_)
SumSeq(s) == IF s = <<>> THEN 0 ELSE Head(s) + SumSeq(Tail(s))

Min(a, b) == IF a < b THEN a ELSE b
Max(a, b) == IF a > b THEN a ELSE b

(***************************************************************************)
(* class Portfolio.  A portfolio is a record                               *)
(*   initial_capital, cash, total_dividends, total_isk_tax, peak_value :   *)
(*              ticks                                                      *)
(*   holdings : the dict, as the sequence of its items in insertion order, *)
(*              each [ticker, shares, entry_price (a rational, in SEK)]    *)
(***************************************************************************)
NewPortfolio(initial_capital) ==
    [initial_capital |-> initial_capital,
     cash            |-> initial_capital,
     holdings        |-> <<>>,
     total_dividends |-> 0,
     total_isk_tax   |-> 0,
     peak_value      |-> initial_capital]

\* The keys of the holdings dict.
HeldTickers(p) == {p.holdings[k].ticker : k \in DOMAIN p.holdings}

\* holdings[ticker], for a held ticker.
Position(p, ticker) ==
    p.holdings[CHOOSE k \in DOMAIN p.holdings : p.holdings[k].ticker = ticker]

\* current_prices.get(ticker, 0); current_prices is a function on the
\* tickers it has a price for, in whole SEK.
PriceOrZero(current_prices, ticker) ==
    IF ticker \in DOMAIN current_prices THEN current_prices[ticker] ELSE 0

RECURSIVE HoldingsValue(_, _)
HoldingsValue(h, current_prices) ==
    IF h = <<>> THEN 0
    ELSE Head(h).shares * PriceOrZero(current_prices, Head(h).ticker) * TicksPerSEK
         + HoldingsValue(Tail(h), current_prices)

GetTotalValue(p, current_prices) ==
    p.cash + HoldingsValue(p.holdings, current_prices)

GetHoldingsCount(p) == Len(p.holdings)

\* amount * (1 + transaction_cost) > cash, amount and cash in ticks,
\* transaction_cost = cost/TicksPerSEK.
CostWithFeesExceeds(amount, cost, cash) ==
    LET whole == amount + MulDivFloor(amount, cost, TicksPerSEK)
        frac  == ((amount % TicksPerSEK) * cost) % TicksPerSEK
    IN  IF frac = 0 THEN whole > cash ELSE whole + 1 > cash

\* Buy without the check of the amount with fees against cash.
BuyNoCashCheck(p, ticker, amount, price, cost) ==
    LET shares      == amount \div (price * TicksPerSEK)
        actual_cost == shares * price * (TicksPerSEK + cost)
    IN  IF shares <= 0
        THEN [ok |-> FALSE, p |-> p]
        ELSE [ok |-> TRUE,
              p  |-> [p EXCEPT
                  !.holdings = IF ticker \in HeldTickers(p) THEN p.holdings
                               ELSE Append(p.holdings,
                                      [ticker |-> ticker, shares |-> shares,
                                       entry_price |-> Rat(price, 1)]),
                  !.cash = p.cash - actual_cost]]

\* Buy debiting the requested amount with fees instead of the cost of the
\* whole shares bought, and taking the last price as the entry price.
BuyDebitsAmount(p, ticker, amount, price, cost) ==
    LET shares == amount \div (price * TicksPerSEK)
        old_shares == IF ticker \in HeldTickers(p) THEN Position(p, ticker).shares ELSE 0
        pos == [ticker |-> ticker, shares |-> old_shares + shares,
                entry_price |-> Rat(price, 1)]
    IN  IF CostWithFeesExceeds(amount, cost, p.cash) \/ shares <= 0
        THEN [ok |-> FALSE, p |-> p]
        ELSE [ok |-> TRUE,
              p  |-> [p EXCEPT
                  !.holdings = IF ticker \in HeldTickers(p)
                               THEN [k \in DOMAIN p.holdings |->
                                        IF p.holdings[k].ticker = ticker THEN pos
                                        ELSE p.holdings[k]]
                               ELSE Append(p.holdings, pos),
                  !.cash = p.cash - (amount + MulDivFloor(amount, cost, TicksPerSEK))]]

\* Buy without the check that at least one share is bought.
BuyNoShareCheck(p, ticker, amount, price, cost) ==
    LET shares      == amount \div (price * TicksPerSEK)
        actual_cost == shares * price * (TicksPerSEK + cost)
    IN  IF CostWithFeesExceeds(amount, cost, p.cash)
        THEN [ok |-> FALSE, p |-> p]
        ELSE [ok |-> TRUE,
              p  |-> [p EXCEPT
                  !.holdings = IF ticker \in HeldTickers(p)
                               THEN [k \in DOMAIN p.holdings |->
                                        IF p.holdings[k].ticker = ticker
                                        THEN [p.holdings[k] EXCEPT !.shares = @ + shares]
                                        ELSE p.holdings[k]]
                               ELSE Append(p.holdings,
                                      [ticker |-> ticker, shares |-> shares,
                                       entry_price |-> Rat(price, 1)]),
                  !.cash = p.cash - actual_cost]]

\* buy(ticker, amount, price, transaction_cost): [ok, p]
Buy(p, ticker, amount, price, cost) ==
    LET shares      == amount \div (price * TicksPerSEK)
        actual_cost == shares * price * (TicksPerSEK + cost)
    IN  IF CostWithFeesExceeds(amount, cost, p.cash)
        THEN [ok |-> FALSE, p |-> p]
        ELSE IF shares <= 0
        THEN [ok |-> FALSE, p |-> p]
        ELSE IF ticker \in HeldTickers(p)
        THEN LET old          == Position(p, ticker)
                 old_shares   == old.shares
                 \* old_value = old_shares * entry_price, new_value = shares * price
                 old_value    == Rat(old_shares * old.entry_price.num, old.entry_price.den)
                 total_shares == old_shares + shares
                 avg_price    == Rat(old_value.num + shares * price * old_value.den,
                                     old_value.den * total_shares)
             IN  [ok |-> TRUE,
                  p  |-> [p EXCEPT
                      !.holdings = [k \in DOMAIN p.holdings |->
                          IF p.holdings[k].ticker = ticker
                          THEN [ticker |-> ticker, shares |-> total_shares,
                                entry_price |-> avg_price]
                          ELSE p.holdings[k]],
                      !.cash = p.cash - actual_cost]]
        ELSE [ok |-> TRUE,
              p  |-> [p EXCEPT
                  !.holdings = Append(p.holdings,
                      [ticker |-> ticker, shares |-> shares,
                       entry_price |-> Rat(price, 1)]),
                  !.cash = p.cash - actual_cost]]

\* Sell adding the fee to the proceeds instead of deducting it.
SellAddsFee(p, ticker, price, cost) ==
    IF ticker \notin HeldTickers(p)
    THEN [ok |-> FALSE, p |-> p]
    ELSE [ok |-> TRUE,
          p  |-> [p EXCEPT
              !.cash = p.cash + Position(p, ticker).shares * price * (TicksPerSEK + cost),
              !.holdings = [k \in 1..(Len(p.holdings) - 1) |->
                               IF p.holdings[k].ticker = ticker
                               THEN p.holdings[Len(p.holdings)] ELSE p.holdings[k]]]]

\* Sell crediting the proceeds and leaving the position in holdings.
SellKeepsPosition(p, ticker, price, cost) ==
    IF ticker \notin HeldTickers(p)
    THEN [ok |-> FALSE, p |-> p]
    ELSE [ok |-> TRUE,
          p  |-> [p EXCEPT
              !.cash = p.cash + Position(p, ticker).shares * price * (TicksPerSEK - cost)]]

\* The holdings dict after del holdings[ticker].
RECURSIVE DelTicker(_, _)
DelTicker(h, ticker) ==
    IF h = <<>> THEN <<>>
    ELSE IF Head(h).ticker = ticker THEN DelTicker(Tail(h), ticker)
    ELSE <<Head(h)>> \o DelTicker(Tail(h), ticker)

\* sell(ticker, price, transaction_cost): [ok, p]
Sell(p, ticker, price, cost) ==
    IF ticker \notin HeldTickers(p)
    THEN [ok |-> FALSE, p |-> p]
    ELSE LET shares   == Position(p, ticker).shares
             proceeds == shares * price * (TicksPerSEK - cost)
         IN  [ok |-> TRUE,
              p  |-> [p EXCEPT !.cash = p.cash + proceeds,
                               !.holdings = DelTicker(p.holdings, ticker)]]

\* sell_all(current_prices, transaction_cost): over list(holdings.keys()).
RECURSIVE SellAllOver(_, _, _, _)
SellAllOver(p, keys, current_prices, cost) ==
    IF keys = <<>> THEN p
    ELSE LET ticker == Head(keys)
             q == IF ticker \in DOMAIN current_prices
                  THEN Sell(p, ticker, current_prices[ticker], cost).p
                  ELSE p
         IN  SellAllOver(q, Tail(keys), current_prices, cost)

SellAll(p, current_prices, cost) ==
    SellAllOver(p, [k \in DOMAIN p.holdings |-> p.holdings[k].ticker],
                current_prices, cost)

\* A period that includes its start date.
RECURSIVE PeriodDivsFromStart(_, _, _)
PeriodDivsFromStart(dividends, start, end) ==
    IF dividends = <<>> THEN 0
    ELSE (IF Head(dividends).ex_date >= start /\ Head(dividends).ex_date <= end
          THEN Head(dividends).amount ELSE 0)
         + PeriodDivsFromStart(Tail(dividends), start, end)

\* dividends[(index > start) & (index <= end)]: the sum of the amounts (ticks
\* per share) of the events of one ticker in the period.
RECURSIVE PeriodDivs(_, _, _)
PeriodDivs(dividends, start, end) ==
    IF dividends = <<>> THEN 0
    ELSE (IF Head(dividends).ex_date > start /\ Head(dividends).ex_date <= end
          THEN Head(dividends).amount ELSE 0)
         + PeriodDivs(Tail(dividends), start, end)

RECURSIVE DividendsOver(_, _, _, _)
DividendsOver(h, dividend_data, start, end) ==
    IF h = <<>> THEN 0
    ELSE (IF Head(h).ticker \notin DOMAIN dividend_data THEN 0
          ELSE Head(h).shares * PeriodDivs(dividend_data[Head(h).ticker], start, end))
         + DividendsOver(Tail(h), dividend_data, start, end)

\* collect_dividends(dividend_data, start_date, end_date): [period_dividends, p]
CollectDividends(p, dividend_data, start_date, end_date) ==
    LET period_dividends == DividendsOver(p.holdings, dividend_data, start_date, end_date)
    IN  [period_dividends |-> period_dividends,
         p |-> [p EXCEPT !.cash = p.cash + period_dividends,
                         !.total_dividends = p.total_dividends + period_dividends]]

\* Tax parameters by year: tax_rate as TaxRateNum/TaxRateDen, tax_free_amount in SEK.
TaxYear2026 == 2026
TaxRateDen == 20000
TaxRateNum(year) == IF year >= TaxYear2026 THEN 213 ELSE 200
TaxFreeAmount(year) == IF year >= TaxYear2026 THEN 300000 ELSE 150000

\* A tax on the whole value once it exceeds the tax-free amount.
PayIskTaxOnWholeValue(p, portfolio_value, year) ==
    LET tax_free_amount == TaxFreeAmount(year) * TicksPerSEK
        isk_tax         == MulDivFloor(portfolio_value, TaxRateNum(year), TaxRateDen)
    IN  IF portfolio_value <= tax_free_amount
        THEN [isk_tax |-> 0, p |-> p]
        ELSE [isk_tax |-> isk_tax,
              p |-> [p EXCEPT !.cash = p.cash - isk_tax,
                              !.total_isk_tax = p.total_isk_tax + isk_tax]]

\* pay_isk_tax(portfolio_value, year): [isk_tax, p].  The product
\* taxable_amount * tax_rate is rounded down to a whole tick.
PayIskTax(p, portfolio_value, year) ==
    LET tax_free_amount == TaxFreeAmount(year) * TicksPerSEK
        taxable_amount  == portfolio_value - tax_free_amount
        isk_tax         == MulDivFloor(taxable_amount, TaxRateNum(year), TaxRateDen)
    IN  IF portfolio_value <= tax_free_amount
        THEN [isk_tax |-> 0, p |-> p]
        ELSE [isk_tax |-> isk_tax,
              p |-> [p EXCEPT !.cash = p.cash - isk_tax,
                              !.total_isk_tax = p.total_isk_tax + isk_tax]]

\* A drawdown adjustment whose peak follows the current value down as well
\* as up.
DrawdownPeakFollowsValue(p, current_prices) ==
    LET current_value == GetTotalValue(p, current_prices)
    IN  [drawdown |-> 0, peak |-> current_value,
         size_multiplier |-> 100, risk_level |-> "NORMAL",
         p |-> [p EXCEPT !.peak_value = current_value]]

\* get_drawdown_adjustment(current_prices): the peak update, the drawdown
\* (peak_value - current_value, of peak_value) and the band it falls in.
\* drawdown_pct < b  iff  (peak - current) * 100 < b * peak; the bands are 5,
\* 10, 15, 20, so both sides are divided by 5.  size_multiplier is in percent.
GetDrawdownAdjustment(p, current_prices) ==
    LET current_value == GetTotalValue(p, current_prices)
        peak == IF current_value > p.peak_value THEN current_value ELSE p.peak_value
        down == peak - current_value
        band == IF down * 20 < peak THEN [size_multiplier |-> 100, risk_level |-> "NORMAL"]
                ELSE IF down * 10 < peak THEN [size_multiplier |-> 85, risk_level |-> "CAUTIOUS"]
                ELSE IF down * 20 < 3 * peak THEN [size_multiplier |-> 70, risk_level |-> "REDUCE"]
                ELSE IF down * 5 < peak THEN [size_multiplier |-> 60, risk_level |-> "DEFENSIVE"]
                ELSE [size_multiplier |-> 50, risk_level |-> "MAX_DEFENSIVE"]
    IN  [drawdown |-> down, peak |-> peak,
         size_multiplier |-> band.size_multiplier, risk_level |-> band.risk_level,
         p |-> [p EXCEPT !.peak_value = peak]]

\* The products target_holdings * size_multiplier, for targets up to 300, that
\* binary floating point rounds to just below their whole value: 0.70 is the
\* double 0.6999999999999999556, and 90 * 0.70 is 62.99999999999999.
FloatShortfall == {<<90, 70>>, <<170, 70>>, <<180, 70>>}

\* int(target_holdings * size_multiplier), size_multiplier in percent.
AdjustedTarget(target_holdings, size_multiplier) ==
    LET whole == (target_holdings * size_multiplier) \div 100
    IN  IF <<target_holdings, size_multiplier>> \in FloatShortfall
        THEN whole - 1 ELSE whole


(***************************************************************************)
(* Price series.  A series (a DataFrame of the provider) is the sequence   *)
(* of its bars [date, close, high, low], ascending by date; the provider   *)
(* returns None for a ticker it has nothing for, here the empty series.    *)
(*                                                                         *)
(* The windows of the code (50, 100 and 200 bars for the moving averages,  *)
(* 20 for the slope, 7 for the crossover, 60 and 120 for the returns, 252  *)
(* for the 52-week high and the volatility percentile, 14 for the ATR) are *)
(* scaled down to series of a few bars.                                    *)
(***************************************************************************)
FastWindow   == 2
MediumWindow == 3
SlowWindow   == 4
SlopeLookback == 2
CrossLookback == 2
Return3mBars == 2
Return6mBars == 3
YearBars == 5
AtrPeriod == 2

\* df[df.index <= as_of_date]
Truncate(df, as_of_date) == SelectSeq(df, LAMBDA bar : bar.date <= as_of_date)

\* df['Close'].iloc[-1], for a series that is not empty.
LastClose(df) == df[Len(df)].close

\* The sum of the closes of the `window` bars ending at bar k: the moving
\* average there is this sum over `window`, and NaN when k < window.
RECURSIVE WindowSum(_, _, _)
WindowSum(df, k, window) ==
    IF window = 0 THEN 0 ELSE df[k].close + WindowSum(df, k - 1, window - 1)

HasMA(df, k, window) == k >= window /\ k <= Len(df)

\* calculate_ma200_slope(df, lookback) > 0
MA200Rising(df) ==
    LET n == Len(df)
    IN  /\ n >= SlopeLookback
        /\ HasMA(df, n - SlopeLookback + 1, SlowWindow)
        /\ HasMA(df, n, SlowWindow)
        /\ WindowSum(df, n, SlowWindow) > WindowSum(df, n - SlopeLookback + 1, SlowWindow)

\* detect_crossover(df, lookback)['crossed_below_ma200']: some bar of the
\* last `lookback` closed below its slow MA after a bar that closed at or
\* above its own.
CrossedBelowMA200(df) ==
    LET n == Len(df)
    IN  /\ n >= CrossLookback + 1
        /\ HasMA(df, n, SlowWindow)
        /\ \E k \in (n - CrossLookback)..(n - 1) :
              /\ HasMA(df, k, SlowWindow)
              /\ df[k].close * SlowWindow >= WindowSum(df, k, SlowWindow)
              /\ df[k + 1].close * SlowWindow < WindowSum(df, k + 1, SlowWindow)

\* calculate_return / calculate_stock_return(df, days), in thousandths of a
\* percent, rounded down.
ReturnMilli(df, days) ==
    IF Len(df) < days THEN 0
    ELSE LET cur  == LastClose(df)
             past == df[Len(df) - days + 1].close
         IN  ((cur - past) * 100000) \div past

\* get_52_week_high(df): the highest high of the last YearBars bars, or of
\* all the bars there are.
RECURSIVE MaxHigh(_, _, _)
MaxHigh(df, k, count) ==
    IF count = 0 \/ k = 0 THEN 0
    ELSE Max(df[k].high, MaxHigh(df, k - 1, count - 1))

Get52WeekHigh(df) == MaxHigh(df, Len(df), Min(YearBars, Len(df)))

\* The true range of bar k: high - low, and against the previous close when
\* there is one.
TrueRange(df, k) ==
    LET tr1 == df[k].high - df[k].low
    IN  IF k = 1 THEN tr1
        ELSE LET pc  == df[k - 1].close
                 tr2 == IF df[k].high >= pc THEN df[k].high - pc ELSE pc - df[k].high
                 tr3 == IF df[k].low >= pc THEN df[k].low - pc ELSE pc - df[k].low
             IN  Max(tr1, Max(tr2, tr3))

\* calculate_atr(df, period) at bar k, as the sum of the true ranges of the
\* period ending there (the mean is this over AtrPeriod); NaN when k < period.
RECURSIVE AtrSum(_, _, _)
AtrSum(df, k, count) ==
    IF count = 0 THEN 0 ELSE TrueRange(df, k) + AtrSum(df, k - 1, count - 1)

HasAtr(df, k) == k >= AtrPeriod

\* calculate_volatility_percentile(df, lookback), as [below, of]: the
\* percentile is below/of * 100; 50 when there is too little data.
VolatilityPercentile(df) ==
    LET n == Len(df)
    IN  IF n < YearBars \/ ~HasAtr(df, n) THEN [below |-> 1, of |-> 2]
        ELSE [below |-> Cardinality({k \in (n - YearBars + 1)..n :
                            HasAtr(df, k) /\ AtrSum(df, k, AtrPeriod) < AtrSum(df, n, AtrPeriod)}),
              of |-> YearBars]

(***************************************************************************)
(* The indicators of the confirmation step: calculate_rsi, calculate_macd  *)
(* and detect_macd_crossover, with scaled periods.                         *)
(***************************************************************************)
RsiPeriod    == 2
MacdFast     == 3
MacdSlow     == 5
MacdSignal   == 2
MacdLookback == 2
\* The longest series the exponential averages are computed on; the spans
\* and this length fix the unit MacdScale below.
MacdBars     == 6

\* delta.where(delta > 0, 0) and -delta.where(delta < 0, 0) at bar k; the
\* first bar has no delta and counts 0.
GainAt(df, k) == IF k > 1 /\ df[k].close > df[k - 1].close
                 THEN df[k].close - df[k - 1].close ELSE 0
LossAt(df, k) == IF k > 1 /\ df[k].close < df[k - 1].close
                 THEN df[k - 1].close - df[k].close ELSE 0

RECURSIVE GainSum(_, _, _)
GainSum(df, k, window) ==
    IF window = 0 THEN 0 ELSE GainAt(df, k) + GainSum(df, k - 1, window - 1)

RECURSIVE LossSum(_, _, _)
LossSum(df, k, window) ==
    IF window = 0 THEN 0 ELSE LossAt(df, k) + LossSum(df, k - 1, window - 1)

\* The points of the last RSI, which is 100 * gain / (gain + loss) over the
\* period: NaN (no points) with fewer bars than the period or with no move.
RsiPoints(df) ==
    LET n    == Len(df)
        gain == GainSum(df, n, RsiPeriod)
        loss == LossSum(df, n, RsiPeriod)
        rsi  == 100 * gain
        all  == gain + loss
    IN  IF n < RsiPeriod \/ all = 0 THEN 0
        ELSE IF 50 * all <= rsi /\ rsi <= 60 * all THEN 10
        ELSE IF 60 * all < rsi /\ rsi <= 70 * all THEN 7
        ELSE IF 40 * all <= rsi /\ rsi < 50 * all THEN 5
        ELSE IF rsi > 70 * all THEN -5
        ELSE 0

\* ewm(span, adjust=False): the weight 2 / (span + 1) of the newest value.
Alpha(span) == Rat(2, span + 1)

RECURSIVE Pow(_, _)
Pow(b, e) == IF e = 0 THEN 1 ELSE b * Pow(b, e - 1)

\* Averages are held as integers, in units of 1/MacdScale, which keeps every
\* value of a series of up to MacdBars bars exact.
MacdScale ==
    Pow(Alpha(MacdFast).den * Alpha(MacdSlow).den * Alpha(MacdSignal).den, MacdBars - 1)

\* One step of ewm(span, adjust=False).mean(): a * value + (1 - a) * previous.
EmaStep(a, value, previous) == (a.num * value + (a.den - a.num) * previous) \div a.den

\* The exponential average of the sequence x at position t.
RECURSIVE EmaAt(_, _, _)
EmaAt(x, t, span) ==
    IF t = 1 THEN x[1] ELSE EmaStep(Alpha(span), x[t], EmaAt(x, t - 1, span))

\* ema_fast - ema_slow of the sequence x.
MacdLine(x) == [t \in DOMAIN x |-> EmaAt(x, t, MacdFast) - EmaAt(x, t, MacdSlow)]

\* The lines of a MACD line and its signal line.
MacdLines(macd, sig) ==
    [macd |-> macd, signal |-> sig, hist |-> [t \in DOMAIN macd |-> macd[t] - sig[t]]]

MacdWithSignal(macd) == MacdLines(macd, [t \in DOMAIN macd |-> EmaAt(macd, t, MacdSignal)])

\* calculate_macd(df): the MACD line, the signal line and the histogram, with
\* the closes in units of 1/MacdScale.
CalculateMacd(df) ==
    MacdWithSignal(MacdLine([t \in 1..Len(df) |-> df[t].close * MacdScale]))

\* The body of detect_macd_crossover on the lines m of n bars.
MacdCrossoverOf(m, n) ==
    IF n < MacdLookback + 1
    THEN [bullish_crossover |-> FALSE, bearish_crossover |-> FALSE,
          macd_positive |-> FALSE, histogram_rising |-> FALSE]
    ELSE [bullish_crossover |->
              \E k \in (n - MacdLookback)..(n - 1) :
                  m.macd[k] <= m.signal[k] /\ m.macd[k + 1] > m.signal[k + 1],
          bearish_crossover |->
              \E k \in (n - MacdLookback)..(n - 1) :
                  m.macd[k] >= m.signal[k] /\ m.macd[k + 1] < m.signal[k + 1],
          macd_positive |-> m.macd[n] > 0,
          histogram_rising |-> m.hist[n] > m.hist[n - 1]]

\* detect_macd_crossover(df, lookback)
DetectMacdCrossover(df) == MacdCrossoverOf(CalculateMacd(df), Len(df))

\* The points of the MACD signals.
MacdPointsOf(macd_info) ==
    (IF macd_info.bullish_crossover THEN 10
     ELSE IF macd_info.macd_positive /\ macd_info.histogram_rising THEN 7
     ELSE IF macd_info.macd_positive THEN 4
     ELSE 0)
    - (IF macd_info.bearish_crossover THEN 10 ELSE 0)

MacdPoints(df) == MacdPointsOf(DetectMacdCrossover(df))

(***************************************************************************)
(* screener.calculate_stock_score.  Points are counted in thousandths; the *)
(* result is rounded to tenths as round(score, 1) does.  quality_score is  *)
(* what fetch_fundamentals gives for the ticker, in whole points.          *)
(***************************************************************************)
CalculateStockScoreFlags(ticker, df, benchmark_returns, quality_score, include_fundamentals, use_indicator_confirmation) ==
    LET n             == Len(df)
        current_price == LastClose(df)
        sum200        == WindowSum(df, n, SlowWindow)
        \* ((current_price - ma200) / ma200) * 100, in thousandths
        distance      == ((current_price * SlowWindow - sum200) * 100000) \div sum200
        above         == current_price * SlowWindow > sum200
        triple        == /\ HasMA(df, n, FastWindow) /\ HasMA(df, n, MediumWindow)
                         /\ WindowSum(df, n, FastWindow) * MediumWindow
                              > WindowSum(df, n, MediumWindow) * FastWindow
                         /\ WindowSum(df, n, MediumWindow) * SlowWindow
                              > sum200 * MediumWindow
        dual          == /\ HasMA(df, n, FastWindow)
                         /\ WindowSum(df, n, FastWindow) * SlowWindow > sum200 * FastWindow
        death_cross   == CrossedBelowMA200(df)
        rs_3m         == ReturnMilli(df, Return3mBars) - benchmark_returns[1]
        rs_6m         == ReturnMilli(df, Return6mBars) - benchmark_returns[2]
        high_52w      == Get52WeekHigh(df)
        score         == 20000
                         + (IF triple THEN 15000 ELSE IF dual THEN 10000 ELSE 0)
                         + (IF MA200Rising(df) THEN 10000 ELSE 0)
                         - (IF death_cross THEN 20000 ELSE 0)
                         + Min(15000, Max(0, rs_3m \div 2))
                         + Min(15000, Max(0, rs_6m \div 2))
                         + Min(15000, (distance * 3) \div 2)
                         + (IF high_52w > 0
                            THEN Min(15000, (current_price * 15000) \div high_52w) ELSE 0)
                         + (IF include_fundamentals THEN quality_score * 1000 ELSE 0)
                         + (IF use_indicator_confirmation
                            THEN (RsiPoints(df) + MacdPoints(df)) * 1000 ELSE 0)
    IN  IF ~HasMA(df, n, SlowWindow)
        THEN [ticker |-> ticker, score |-> 0, above_ma200 |-> FALSE, death_cross |-> FALSE]
        ELSE IF ~above
        THEN [ticker |-> ticker, score |-> 0, above_ma200 |-> FALSE, death_cross |-> FALSE]
        ELSE [ticker |-> ticker, score |-> (score + 50) \div 100,
              above_ma200 |-> TRUE, death_cross |-> death_cross]

\* The call of screen_stocks_historical: include_fundamentals=True, and
\* use_indicator_confirmation at its default.
CalculateStockScore(ticker, df, benchmark_returns, quality_score) ==
    CalculateStockScoreFlags(ticker, df, benchmark_returns, quality_score, TRUE, FALSE)

(***************************************************************************)
(* Dates.                                                                  *)
(***************************************************************************)
YearOf(d)  == d \div 10000
MonthOf(d) == (d \div 100) % 100
DayOf(d)   == d % 100

IsLeap(y) == (y % 4 = 0 /\ y % 100 # 0) \/ y % 400 = 0

DaysInMonth(y, m) ==
    IF m = 2 THEN (IF IsLeap(y) THEN 29 ELSE 28)
    ELSE IF m \in {4, 6, 9, 11} THEN 30 ELSE 31

\* current + timedelta(days=1)
NextDay(d) ==
    IF DayOf(d) < DaysInMonth(YearOf(d), MonthOf(d)) THEN d + 1
    ELSE IF MonthOf(d) < 12 THEN YearOf(d) * 10000 + (MonthOf(d) + 1) * 100 + 1
    ELSE (YearOf(d) + 1) * 10000 + 101

RECURSIVE AddDays(_, _)
AddDays(d, n) == IF n = 0 THEN d ELSE AddDays(NextDay(d), n - 1)

\* current.replace(month=current.month + 1), or January of the next year:
\* the day of the month is kept, and replace raises ValueError (0 here) when
\* the next month has no such day.
NextMonth(d) ==
    LET y == IF MonthOf(d) = 12 THEN YearOf(d) + 1 ELSE YearOf(d)
        m == IF MonthOf(d) = 12 THEN 1 ELSE MonthOf(d) + 1
    IN  IF DayOf(d) <= DaysInMonth(y, m) THEN y * 10000 + m * 100 + DayOf(d) ELSE 0

\* generate_rebalance_dates(start_date, end_date, frequency): [outcome, dates].
\* A frequency that is neither "monthly" nor "weekly" never advances current,
\* so the loop never ends when start_date <= end_date.
RECURSIVE RebalanceDatesFrom(_, _, _, _)
RebalanceDatesFrom(current, end, frequency, dates) ==
    IF current > end THEN [outcome |-> "ok", dates |-> dates]
    ELSE IF frequency = "monthly"
    THEN IF NextMonth(current) = 0
         THEN [outcome |-> "ValueError", dates |-> Append(dates, current)]
         ELSE RebalanceDatesFrom(NextMonth(current), end, frequency, Append(dates, current))
    ELSE IF frequency = "weekly"
    THEN RebalanceDatesFrom(AddDays(current, 7), end, frequency, Append(dates, current))
    ELSE [outcome |-> "never returns", dates |-> Append(dates, current)]

GenerateRebalanceDates(start_date, end_date, frequency) ==
    RebalanceDatesFrom(start_date, end_date, frequency, <<>>)

(***************************************************************************)
(* Snapshot, regime and screening, as backtest_strategy calls them.        *)
(* `fetched` is what fetch_stock_data(ticker, period='max') returns for    *)
(* each ticker at the time of the call: the provider's full series, or the *)
(* empty series when the fetch fails.  A snapshot (the dict stock_data) is *)
(* the sequence of its items [ticker, df] in insertion order.              *)
(***************************************************************************)
\* A snapshot that keeps each ticker's full series.
FetchSnapshotNoTruncation(stocks, fetched, as_of_date) ==
    LET all == [k \in DOMAIN stocks |-> [ticker |-> stocks[k], df |-> fetched[stocks[k]]]]
    IN  SelectSeq(all, LAMBDA item : Len(item.df) >= SlowWindow)

\* fetch_historical_snapshot(stocks, as_of_date)
FetchHistoricalSnapshot(stocks, fetched, as_of_date) ==
    LET all == [k \in DOMAIN stocks |->
                   [ticker |-> stocks[k], df |-> Truncate(fetched[stocks[k]], as_of_date)]]
    IN  SelectSeq(all, LAMBDA item : Len(item.df) >= SlowWindow)

SnapshotTickers(stock_data) == {stock_data[k].ticker : k \in DOMAIN stock_data}

SnapshotDf(stock_data, ticker) ==
    stock_data[CHOOSE k \in DOMAIN stock_data : stock_data[k].ticker = ticker].df

\* {ticker: df['Close'].iloc[-1] for ticker, df in period_stocks.items() if not df.empty}
CurrentPrices(period_stocks) ==
    [ticker \in {t \in SnapshotTickers(period_stocks) : Len(SnapshotDf(period_stocks, t)) > 0}
        |-> LastClose(SnapshotDf(period_stocks, ticker))]

\* check_market_regime_historical(as_of_date); index_fetched is what
\* fetch_stock_data('^OMX', period='max') returns.
CheckMarketRegimeHistorical(index_fetched, as_of_date) ==
    LET index_data == Truncate(index_fetched, as_of_date)
        n == Len(index_data)
    IN  IF index_fetched = <<>> THEN "neutral"
        ELSE IF n < SlowWindow THEN "neutral"
        ELSE IF LastClose(index_data) * SlowWindow > WindowSum(index_data, n, SlowWindow)
        THEN "bull" ELSE "bear"

\* The frames of a snapshot come from fetch_stock_data and carry the price
\* columns only: 'MA200' is not among df.columns.
HasMA200Column(df) == FALSE

\* market_regime.get_market_regime_dynamic(index_data, stock_universe_data,
\* as_of_date) for an index_data that is not empty and has its MA columns.
GetMarketRegimeDynamic(index_data, stock_universe_data, as_of_date) ==
    LET n == Len(index_data)
        index_price == LastClose(index_data)
        has200 == HasMA(index_data, n, SlowWindow)
        sum200 == WindowSum(index_data, n, SlowWindow)
        above == has200 /\ index_price * SlowWindow > sum200
        triple == /\ WindowSum(index_data, n, FastWindow) * MediumWindow
                       > WindowSum(index_data, n, MediumWindow) * FastWindow
                  /\ WindowSum(index_data, n, MediumWindow) * SlowWindow
                       > sum200 * MediumWindow
        dual == WindowSum(index_data, n, FastWindow) * SlowWindow > sum200 * FastWindow
        \* index_vs_ma200 > -5, index_vs_ma200 being 0 when ma200 is NaN
        near == ~has200 \/ (index_price * SlowWindow - sum200) * 20 > 0 - sum200
        index_points == IF above
                        THEN 20 + (IF triple THEN 20 ELSE IF dual THEN 10 ELSE 0)
                        ELSE IF near THEN 5 ELSE 0
        counted == {k \in DOMAIN stock_universe_data :
                       /\ Len(stock_universe_data[k].df) > 0
                       /\ HasMA200Column(stock_universe_data[k].df)}
        above_ma200 == {k \in counted :
                           LET df == stock_universe_data[k].df
                           IN  /\ HasMA(df, Len(df), SlowWindow)
                               /\ LastClose(df) * SlowWindow > WindowSum(df, Len(df), SlowWindow)}
        stocks_above_ma200 == Cardinality(above_ma200)
        total_stocks == Cardinality(counted)
        \* breadth_pct > b  iff  stocks_above_ma200 * 100 > b * total_stocks
        breadth_points == IF total_stocks = 0 THEN 0
                          ELSE IF stocks_above_ma200 * 100 > 70 * total_stocks THEN 30
                          ELSE IF stocks_above_ma200 * 100 > 50 * total_stocks THEN 20
                          ELSE IF stocks_above_ma200 * 100 > 30 * total_stocks THEN 10
                          ELSE IF stocks_above_ma200 * 100 > 15 * total_stocks THEN 5
                          ELSE 0
        vol == VolatilityPercentile(index_data)
        volatility_points == IF vol.below * 100 < 30 * vol.of THEN 30
                             ELSE IF vol.below * 100 < 50 * vol.of THEN 20
                             ELSE IF vol.below * 100 < 70 * vol.of THEN 10
                             ELSE IF vol.below * 100 < 85 * vol.of THEN 5
                             ELSE 0
        regime_score == index_points + breadth_points + volatility_points
        class == IF regime_score >= 75
                 THEN [regime |-> "STRONG_BULL", target_stocks |-> 80]
                 ELSE IF regime_score >= 55
                 THEN [regime |-> "BULL", target_stocks |-> 60]
                 ELSE IF regime_score >= 35
                 THEN [regime |-> "NEUTRAL", target_stocks |-> 40]
                 ELSE IF regime_score >= 20
                 THEN [regime |-> "BEAR", target_stocks |-> 20]
                 ELSE [regime |-> "PANIC", target_stocks |-> 5]
    \* breadth_pct is stocks_above_ma200 / total_stocks * 100, 0 of 0 being 0
    IN  [regime |-> class.regime, regime_score |-> regime_score,
         target_stocks |-> class.target_stocks,
         breadth_points |-> breadth_points,
         stocks_above_ma200 |-> stocks_above_ma200, total_stocks |-> total_stocks]

\* df_results.sort_values('score', ascending=False): rows of equal score keep
\* their order.
RECURSIVE InsertByScore(_, _)
InsertByScore(row, sorted) ==
    IF sorted = <<>> THEN <<row>>
    ELSE IF row.score > Head(sorted).score THEN <<row>> \o sorted
    ELSE <<Head(sorted)>> \o InsertByScore(row, Tail(sorted))

RECURSIVE SortByScore(_)
SortByScore(rows) ==
    IF rows = <<>> THEN <<>>
    ELSE InsertByScore(rows[Len(rows)], SortByScore(SubSeq(rows, 1, Len(rows) - 1)))

\* screen_stocks_historical(stock_data, as_of_date): the rows [ticker, score]
\* (score in tenths of a point) that scored above 0 and are above their slow
\* MA, by descending score.  quality is fetch_fundamentals' quality_score.
ScreenStocksHistorical(stock_data, index_fetched, quality, as_of_date) ==
    LET benchmark_data == Truncate(index_fetched, as_of_date)
        benchmark_returns == IF index_fetched = <<>> THEN <<0, 0>>
                             ELSE <<ReturnMilli(benchmark_data, Return3mBars),
                                    ReturnMilli(benchmark_data, Return6mBars)>>
        results == [k \in DOMAIN stock_data |->
                       CalculateStockScore(stock_data[k].ticker, stock_data[k].df,
                                           benchmark_returns, quality[stock_data[k].ticker])]
        passed == SelectSeq(results, LAMBDA metrics : metrics.score > 0 /\ metrics.above_ma200)
    IN  SortByScore([k \in DOMAIN passed |->
                        [ticker |-> passed[k].ticker, score |-> passed[k].score]])

\* screened_stocks.head(target_holdings)
HeadRows(rows, count) == SubSeq(rows, 1, Min(Len(rows), Max(count, 0)))

(***************************************************************************)
(* State.                                                                  *)
(*   portfolio : the Portfolio object                                      *)
(*   lastOp    : the last Portfolio method called directly, its arguments, *)
(*               what it returned and the portfolio it was called on; and  *)
(*               of the calls so far, the tickers whose latest successful  *)
(*               trade was a sell (sold, and sold_before the last call)    *)
(*               and those whose latest was a buy (bought)                 *)
(*   nOps      : the number of direct method calls so far                  *)
(* and, of a run of backtest_strategy:                                     *)
(*   config    : its arguments                                             *)
(*   market    : what the data provider holds: the full price series of    *)
(*               each ticker and of the index, the dividend series, the    *)
(*               quality scores                                            *)
(*   outage    : the tickers and the rebalance date for which              *)
(*               fetch_stock_data fails (returns None), if any             *)
(*   rebalance_dates, i, prev_rebal_date, equity_curve, trade_log : the    *)
(*               locals of that name; i counts from 1                      *)
(*   locals    : the locals of the current loop iteration                  *)
(*   result    : what the run returns                                      *)
(*   pc        : where the run is                                          *)
(***************************************************************************)
VARIABLES portfolio, lastOp, nOps,
          config, market, outage, rebalance_dates, i, prev_rebal_date,
          equity_curve, trade_log, locals, result, pc

runVars == <<config, market, outage, rebalance_dates, i, prev_rebal_date,
             equity_curve, trade_log, locals, result, pc>>

vars == <<portfolio, lastOp, nOps, config, market, outage, rebalance_dates, i,
          prev_rebal_date, equity_curve, trade_log, locals, result, pc>>

\* No run of backtest_strategy: the Portfolio object is used on its own.
NoRun ==
    /\ config = <<>> /\ market = <<>> /\ outage = <<>> /\ rebalance_dates = <<>>
    /\ i = 0 /\ prev_rebal_date = 0 /\ equity_curve = <<>> /\ trade_log = <<>>
    /\ locals = <<>> /\ result = <<>> /\ pc = "none"

\* The longest sequence of Portfolio method calls explored.
MaxOps == 4

\* Portfolio(initial_capital): 100,000 SEK, 99,437.50 SEK and 160,000 SEK.
InitialCapitals == {100000 * TicksPerSEK, 39775000, 160000 * TicksPerSEK}

\* Arguments of the calls: share prices (SEK), buy amounts (ticks), price
\* dicts, dividend series (amount in ticks per share), periods and tax years.
Prices == {250, 260}
Amounts == {100 * TicksPerSEK, 25000 * TicksPerSEK, 159500 * TicksPerSEK}
PriceDicts == {[t \in Tickers |-> 250], [t \in Tickers |-> 260],
               [t \in {"A"} |-> 260], <<>>}
DividendData == [t \in {"A", "B"} |->
                    IF t = "A" THEN <<[ex_date |-> 20250315, amount |-> 2 * TicksPerSEK],
                                      [ex_date |-> 20250915, amount |-> 3 * TicksPerSEK]>>
                    ELSE <<[ex_date |-> 20250315, amount |-> TicksPerSEK]>>]
Periods == {<<20250101, 20250315>>, <<20250315, 20250915>>, <<20250101, 20251231>>}
TaxYears == {2025, 2026}
\* transaction_cost, in 1/TicksPerSEK: 0.25%.
DefaultCost == 1

\* A call: the method, its ticker, amount and price arguments where it has
\* them, its other arguments (args), whether it returned true (ok) or the
\* number it returned.
NoOp == [op |-> "init", ticker |-> "", amount |-> 0, price |-> 0, ok |-> TRUE,
         returned |-> 0, args |-> <<>>]

\* lastOp before any call on portfolio p.
NoCalls(p) == [call |-> NoOp, before |-> p, sold_before |-> {}, sold |-> {}, bought |-> {}]

\* lastOp after a call that sold the tickers in sells and bought those in buys.
Logged(call, sells, buys) ==
    [call |-> call, before |-> portfolio, sold_before |-> lastOp.sold,
     sold |-> (lastOp.sold \cup sells) \ buys,
     bought |-> (lastOp.bought \cup buys) \ sells]

InitPortfolio ==
    /\ \E initial_capital \in InitialCapitals : portfolio = NewPortfolio(initial_capital)
    /\ lastOp = NoCalls(portfolio)
    /\ nOps = 0
    /\ NoRun

CallBuy ==
    \E ticker \in Tickers, amount \in Amounts, price \in Prices :
        LET r == Buy(portfolio, ticker, amount, price, DefaultCost)
        IN  /\ nOps < MaxOps
            /\ portfolio' = r.p
            /\ lastOp' = Logged([op |-> "buy", ticker |-> ticker, amount |-> amount,
                                    price |-> price, ok |-> r.ok,
                                    returned |-> 0, args |-> <<>>],
                                {}, IF r.ok THEN {ticker} ELSE {})
            /\ nOps' = nOps + 1
            /\ UNCHANGED runVars

CallSell ==
    \E ticker \in Tickers, price \in Prices :
        LET r == Sell(portfolio, ticker, price, DefaultCost)
        IN  /\ nOps < MaxOps
            /\ portfolio' = r.p
            /\ lastOp' = Logged([op |-> "sell", ticker |-> ticker, amount |-> 0,
                                    price |-> price, ok |-> r.ok,
                                    returned |-> 0, args |-> <<>>],
                                IF r.ok THEN {ticker} ELSE {}, {})
            /\ nOps' = nOps + 1
            /\ UNCHANGED runVars

CallSellAll ==
    \E current_prices \in PriceDicts :
        /\ nOps < MaxOps
        /\ portfolio' = SellAll(portfolio, current_prices, DefaultCost)
        /\ lastOp' = Logged([op |-> "sell_all", ticker |-> "", amount |-> 0,
                                price |-> 0, ok |-> TRUE,
                                returned |-> 0, args |-> current_prices],
                            HeldTickers(portfolio) \cap DOMAIN current_prices, {})
        /\ nOps' = nOps + 1
        /\ UNCHANGED runVars

CallCollectDividends ==
    \E period \in Periods :
        LET r == CollectDividends(portfolio, DividendData, period[1], period[2])
        IN  /\ nOps < MaxOps
            /\ portfolio' = r.p
            /\ lastOp' = Logged([op |-> "collect_dividends", ticker |-> "",
                                    amount |-> r.period_dividends, price |-> 0, ok |-> TRUE,
                                    returned |-> r.period_dividends, args |-> period],
                                {}, {})
            /\ nOps' = nOps + 1
            /\ UNCHANGED runVars

\* pay_isk_tax on the portfolio's value at some prices, as the run calls it,
\* or on a value of 400,000 SEK.
CallPayIskTax ==
    \E portfolio_value \in {GetTotalValue(portfolio, cp) : cp \in PriceDicts}
                             \cup {400000 * TicksPerSEK},
       year \in TaxYears :
        LET r == PayIskTax(portfolio, portfolio_value, year)
        IN  /\ nOps < MaxOps
            /\ portfolio' = r.p
            /\ lastOp' = Logged([op |-> "pay_isk_tax", ticker |-> "",
                                    amount |-> portfolio_value, price |-> year, ok |-> TRUE,
                                    returned |-> r.isk_tax, args |-> <<>>],
                                {}, {})
            /\ nOps' = nOps + 1
            /\ UNCHANGED runVars

CallGetDrawdownAdjustment ==
    \E current_prices \in PriceDicts :
        LET r == GetDrawdownAdjustment(portfolio, current_prices)
        IN  /\ nOps < MaxOps
            /\ portfolio' = r.p
            /\ lastOp' = Logged([op |-> "get_drawdown_adjustment", ticker |-> "",
                                    amount |-> 0, price |-> r.size_multiplier,
                                    ok |-> TRUE, returned |-> r.drawdown,
                                    args |-> current_prices],
                                {}, {})
            /\ nOps' = nOps + 1
            /\ UNCHANGED runVars

NextPortfolio ==
    \/ CallBuy
    \/ CallSell
    \/ CallSellAll
    \/ CallCollectDividends
    \/ CallPayIskTax
    \/ CallGetDrawdownAdjustment

\* Any sequence of Portfolio method calls on a fresh portfolio.
SpecPortfolio == InitPortfolio /\ [][NextPortfolio]_vars


(***************************************************************************)
(* backtest_strategy.  The inputs of a run.                                *)
(***************************************************************************)
\* stocks, in the order given.
Stocks == <<"A", "B", "C">>

\* start_date and end_date of the run; rebalance_frequency is "monthly".
StartDate == 20251001
EndDate   == 20260201

\* The trading days the provider has bars for.
BarDates == <<20250731, 20250829, 20250930, 20251031, 20251128, 20251230, 20260130>>

\* The series with the given closes on consecutive trading days from
\* BarDates[first]; each bar ranges one SEK around its close.
Series(closes, first) ==
    [k \in 1..Len(closes) |->
        [date |-> BarDates[first + k - 1], close |-> closes[k],
         high |-> closes[k] + 1, low |-> closes[k] - 1]]

\* Price paths of a stock: rising; rising, then collapsing in December or
\* already in November; falling; recovering; listed late.
PathUp      == Series(<<100, 102, 104, 106, 110, 114, 118>>, 1)
PathUpDown  == Series(<<100, 102, 104, 106, 110, 60, 50>>, 1)
PathCrash   == Series(<<100, 102, 104, 106, 60, 50, 40>>, 1)
PathDown    == Series(<<100, 98, 96, 94, 92, 90, 88>>, 1)
PathRecover == Series(<<100, 90, 80, 70, 100, 120, 130>>, 1)
PathLate    == Series(<<50, 52, 54, 56, 58>>, 3)

StockPaths == [t \in Tickers |->
    IF t = "A" THEN {PathUp, PathUpDown, PathCrash}
    ELSE IF t = "B" THEN {PathUp, PathCrash, PathRecover}
    ELSE {PathCrash, PathDown, PathLate}]

\* Paths of the index, the empty one for a provider that has no index data.
IndexBull     == Series(<<1000, 1010, 1020, 1030, 1040, 1050, 1060>>, 1)
IndexBullBear == Series(<<1000, 1010, 1020, 1030, 1040, 900, 850>>, 1)
IndexBear     == Series(<<1000, 990, 980, 970, 960, 950, 940>>, 1)
IndexLate     == Series(<<1010, 1020, 1030, 1040, 1050, 1060>>, 2)
IndexPaths    == {IndexBull, IndexBullBear, IndexBear, IndexLate, <<>>}

\* Dividends per share (ticks) by ex-date, and fetch_fundamentals' quality_score.
Dividends == [t \in {"A", "B"} |->
    IF t = "A" THEN <<[ex_date |-> 20251115, amount |-> 2 * TicksPerSEK]>>
    ELSE <<[ex_date |-> 20250601, amount |-> TicksPerSEK],
           [ex_date |-> 20251215, amount |-> TicksPerSEK]>>]
Quality == [t \in Tickers |-> IF t = "A" THEN 5 ELSE IF t = "B" THEN 10 ELSE 0]

Markets ==
    {[stocks |-> st, index |-> ix, dividends |-> Dividends, quality |-> Quality] :
        st \in {f \in [Tickers -> UNION {StockPaths[t] : t \in Tickers}] :
                   \A t \in Tickers : f[t] \in StockPaths[t]},
        ix \in IndexPaths}

Configs ==
    {[stocks |-> Stocks, start_date |-> StartDate, end_date |-> EndDate,
      initial_capital |-> ic, rebalance_frequency |-> "monthly",
      max_holdings |-> mh, transaction_cost |-> DefaultCost,
      use_dynamic_regime |-> dyn, max_holdings_dynamic |-> 2,
      use_atr_sizing |-> FALSE, atr_account_risk |-> 1, atr_multiplier |-> 2,
      use_conviction_weighting |-> FALSE,
      conviction_tier1_count |-> 15, conviction_tier1_weight |-> 50,
      conviction_tier2_count |-> 25, conviction_tier2_weight |-> 35,
      conviction_tier3_weight |-> 15] :
        ic \in {200000 * TicksPerSEK, 4000 * TicksPerSEK},
        mh \in {1, 3}, dyn \in BOOLEAN}

NoOutage == [tickers |-> {}, date |-> 0]
Outages == {NoOutage, [tickers |-> {"A"}, date |-> 20251201],
            [tickers |-> {"B"}, date |-> 20260101],
            [tickers |-> Tickers, date |-> 20251201],
            [tickers |-> Tickers, date |-> 20260101]}

\* fetch_dividend_data(stocks, start_date, end_date): the tickers that paid in
\* the range, each with its events there.
FetchDividendData(dividends, start_date, end_date) ==
    LET filtered(t) == SelectSeq(dividends[t],
                           LAMBDA e : e.ex_date >= start_date /\ e.ex_date <= end_date)
    IN  [t \in {u \in DOMAIN dividends : filtered(u) # <<>>} |-> filtered(t)]

\* The locals of a loop iteration before it has assigned them; tax_assessed
\* tells whether the iteration has called pay_isk_tax; buy_calls lists
\* the calls of portfolio.buy in the iteration with what each returned, buys
\* the successful ones.
NewLocals ==
    [period_dividends |-> 0, tax_assessed |-> FALSE, value_before_tax |-> 0,
     isk_tax_paid |-> 0, had_data |-> FALSE,
     period_stocks |-> <<>>, current_prices |-> <<>>, portfolio_value |-> 0,
     regime |-> "", drawdown |-> 0, size_multiplier |-> 100, target_holdings |-> 0,
     screened |-> FALSE,
     screened_stocks |-> <<>>, top_stocks |-> <<>>, target_tickers |-> {},
     traded |-> FALSE, sell_keys |-> <<>>, total_portfolio_value |-> 0,
     stock_rank |-> 0, buys |-> <<>>, buy_calls |-> <<>>]

Init ==
    /\ config \in Configs
    /\ market \in Markets
    /\ outage \in Outages
    /\ portfolio = NewPortfolio(config.initial_capital)
    /\ rebalance_dates = GenerateRebalanceDates(config.start_date, config.end_date,
                                                config.rebalance_frequency).dates
    /\ i = 1
    /\ prev_rebal_date = config.start_date
    /\ equity_curve = <<>>
    /\ trade_log = <<>>
    /\ locals = NewLocals
    /\ result = <<>>
    /\ pc = "collect"
    /\ lastOp = NoCalls(portfolio)
    /\ nOps = 0

\* rebal_date
RebalDate == rebalance_dates[i]

\* What fetch_stock_data returns for each ticker during this iteration.
Fetched ==
    [t \in Tickers |-> IF outage.date = RebalDate /\ t \in outage.tickers
                       THEN <<>> ELSE market.stocks[t]]

\* What a run never assigns after its start.
fixedVars == <<config, market, outage, rebalance_dates, lastOp, nOps>>

(***************************************************************************)
(* The loop body of backtest_strategy, in program order.                   *)
(***************************************************************************)
\* A collection over the whole run so far instead of the period since the
\* previous date.
CollectStepFromStart ==
    /\ pc = "collect"
    /\ i <= Len(rebalance_dates)
    /\ LET dividend_data == FetchDividendData(market.dividends, config.start_date,
                                              config.end_date)
           r == CollectDividends(portfolio, dividend_data, config.start_date, RebalDate)
       IN  /\ portfolio' = r.p
           /\ locals' = [NewLocals EXCEPT !.period_dividends = r.period_dividends]
    /\ pc' = "tax"
    /\ UNCHANGED <<fixedVars, i, prev_rebal_date, equity_curve, trade_log, result>>

\* Lines 296-303: the dividends of the period since the previous date.
CollectStep ==
    /\ pc = "collect"
    /\ i <= Len(rebalance_dates)
    /\ LET dividend_data == FetchDividendData(market.dividends, config.start_date,
                                              config.end_date)
           r == CollectDividends(portfolio, dividend_data, prev_rebal_date, RebalDate)
       IN  /\ portfolio' = r.p
           /\ locals' = [NewLocals EXCEPT !.period_dividends = r.period_dividends]
    /\ pc' = "tax"
    /\ UNCHANGED <<fixedVars, i, prev_rebal_date, equity_curve, trade_log, result>>

\* A test that also holds within a year.
YearSameOrLater(rebal_date, prev_date) ==
    YearOf(rebal_date) >= YearOf(prev_date)

\* Line 310: current_date.year > prev_date.year
YearRolledOver(rebal_date, prev_date) ==
    YearOf(rebal_date) > YearOf(prev_date)

\* Lines 305-321: on the first date of a new year, the tax of the previous
\* year on the portfolio's value at the previous date's prices.
TaxStep ==
    /\ pc = "tax"
    /\ IF YearRolledOver(RebalDate, prev_rebal_date)
       THEN LET period_stocks_tax == FetchHistoricalSnapshot(config.stocks, Fetched,
                                                             prev_rebal_date)
                prices_before_tax == CurrentPrices(period_stocks_tax)
                value_before_tax  == GetTotalValue(portfolio, prices_before_tax)
                r == PayIskTax(portfolio, value_before_tax, YearOf(prev_rebal_date))
            IN  /\ portfolio' = r.p
                /\ locals' = [locals EXCEPT !.tax_assessed = TRUE,
                                            !.value_before_tax = value_before_tax,
                                            !.isk_tax_paid = r.isk_tax]
       ELSE UNCHANGED <<portfolio, locals>>
    /\ pc' = "snapshot"
    /\ UNCHANGED <<fixedVars, i, prev_rebal_date, equity_curve, trade_log, result>>

\* The same lines without line 328: a date with no data leaves
\* prev_rebal_date alone.
SnapshotStepKeepsPrevDate ==
    /\ pc = "snapshot"
    /\ LET period_stocks   == FetchHistoricalSnapshot(config.stocks, Fetched, RebalDate)
           current_prices  == CurrentPrices(period_stocks)
           portfolio_value == GetTotalValue(portfolio, current_prices)
       IN  IF period_stocks = <<>>
           THEN /\ pc' = "end"
                /\ UNCHANGED <<locals, equity_curve, prev_rebal_date>>
           ELSE /\ locals' = [locals EXCEPT !.had_data = TRUE,
                                            !.period_stocks = period_stocks,
                                            !.current_prices = current_prices,
                                            !.portfolio_value = portfolio_value]
                /\ equity_curve' = Append(equity_curve,
                       [date |-> RebalDate, value |-> portfolio_value,
                        cash |-> portfolio.cash, holdings |-> GetHoldingsCount(portfolio),
                        dividends |-> portfolio.total_dividends])
                /\ pc' = "regime"
                /\ prev_rebal_date' = RebalDate
    /\ UNCHANGED <<fixedVars, portfolio, i, trade_log, result>>

\* Lines 323-351: the snapshot as of the date, the valuation and the equity
\* curve point; a date with no data ends the iteration.
SnapshotStep ==
    /\ pc = "snapshot"
    /\ LET period_stocks   == FetchHistoricalSnapshot(config.stocks, Fetched, RebalDate)
           current_prices  == CurrentPrices(period_stocks)
           portfolio_value == GetTotalValue(portfolio, current_prices)
       IN  IF period_stocks = <<>>
           THEN /\ pc' = "end"
                /\ UNCHANGED <<locals, equity_curve>>
           ELSE /\ locals' = [locals EXCEPT !.had_data = TRUE,
                                            !.period_stocks = period_stocks,
                                            !.current_prices = current_prices,
                                            !.portfolio_value = portfolio_value]
                /\ equity_curve' = Append(equity_curve,
                       [date |-> RebalDate, value |-> portfolio_value,
                        cash |-> portfolio.cash, holdings |-> GetHoldingsCount(portfolio),
                        dividends |-> portfolio.total_dividends])
                /\ pc' = "regime"
    /\ prev_rebal_date' = RebalDate
    /\ UNCHANGED <<fixedVars, portfolio, i, trade_log, result>>

\* Lines 353-379: the regime label and the target it gives, from
\* benchmark_data (what fetch_stock_data('^OMX', period='max') returned before
\* the loop) under use_dynamic_regime, from a fresh fetch of the index
\* otherwise.
ChooseRegime(cfg, index_fetched, period_stocks, rebal_date) ==
    IF cfg.use_dynamic_regime
    THEN LET regime_info == GetMarketRegimeDynamic(index_fetched, period_stocks, rebal_date)
         IN  [regime |-> regime_info.regime, target_holdings |-> regime_info.target_stocks]
    ELSE LET regime == CheckMarketRegimeHistorical(index_fetched, rebal_date)
         IN  [regime |-> regime,
              target_holdings |-> IF regime = "bull" THEN cfg.max_holdings
                                  ELSE IF regime = "bear" THEN 5
                                  ELSE 10]

\* Lines 353-393: the regime and its target, then the drawdown adjustment.
\* With use_dynamic_regime and no benchmark data, line 356 raises
\* AttributeError.
RegimeStep ==
    /\ pc = "regime"
    /\ IF config.use_dynamic_regime /\ market.index = <<>>
       THEN /\ pc' = "AttributeError"
            /\ UNCHANGED <<portfolio, locals>>
       ELSE LET chosen == ChooseRegime(config, market.index, locals.period_stocks, RebalDate)
                dd == GetDrawdownAdjustment(portfolio, locals.current_prices)
                adjusted_target == AdjustedTarget(chosen.target_holdings, dd.size_multiplier)
            IN  /\ portfolio' = dd.p
                /\ locals' = [locals EXCEPT !.regime = chosen.regime,
                                            !.drawdown = dd.drawdown,
                                            !.size_multiplier = dd.size_multiplier,
                                            !.target_holdings = adjusted_target]
                /\ pc' = "screen"
    /\ UNCHANGED <<fixedVars, i, prev_rebal_date, equity_curve, trade_log, result>>

\* Lines 395-409: the screen and the target set; an empty screen ends the
\* iteration.  sell_keys is list(portfolio.holdings.keys()).
ScreenStep ==
    /\ pc = "screen"
    /\ LET screened_stocks == ScreenStocksHistorical(locals.period_stocks, market.index,
                                                     market.quality, RebalDate)
           top_stocks == HeadRows(screened_stocks, locals.target_holdings)
       IN  IF screened_stocks = <<>>
           THEN /\ locals' = [locals EXCEPT !.screened = TRUE]
                /\ pc' = "end"
           ELSE /\ locals' = [locals EXCEPT
                       !.screened = TRUE,
                       !.screened_stocks = screened_stocks,
                       !.top_stocks = top_stocks,
                       !.target_tickers = {top_stocks[k].ticker : k \in DOMAIN top_stocks},
                       !.traded = TRUE,
                       !.sell_keys = [k \in DOMAIN portfolio.holdings |->
                                         portfolio.holdings[k].ticker]]
                /\ pc' = "sell"
    /\ UNCHANGED <<fixedVars, portfolio, i, prev_rebal_date, equity_curve, trade_log, result>>

\* Lines 409-437, one pass of the loop over the held tickers.
SellStep ==
    /\ pc = "sell"
    /\ locals.sell_keys # <<>>
    /\ LET ticker == Head(locals.sell_keys)
           df == SnapshotDf(locals.period_stocks, ticker)
           fire_alarm == /\ ticker \in SnapshotTickers(locals.period_stocks)
                         /\ HasMA(df, Len(df), SlowWindow)
                         /\ LastClose(df) * SlowWindow < WindowSum(df, Len(df), SlowWindow)
           should_sell == ticker \notin locals.target_tickers \/ fire_alarm
           reason == IF ticker \notin locals.target_tickers THEN "Not in top stocks"
                     ELSE "Below MA200 (fire alarm)"
           price == PriceOrZero(locals.current_prices, ticker)
       IN  IF should_sell /\ price > 0
           THEN /\ portfolio' = Sell(portfolio, ticker, price, config.transaction_cost).p
                /\ trade_log' = Append(trade_log,
                       [date |-> RebalDate, action |-> "SELL", ticker |-> ticker,
                        price |-> price, reason |-> reason, score |-> 0])
           ELSE UNCHANGED <<portfolio, trade_log>>
    /\ locals' = [locals EXCEPT !.sell_keys = Tail(locals.sell_keys)]
    /\ UNCHANGED <<fixedVars, i, prev_rebal_date, equity_curve, result, pc>>

\* Lines 439-445: whether there is anything to buy, and the value the
\* position size is taken from.
BuyBegin ==
    /\ pc = "sell"
    /\ locals.sell_keys = <<>>
    /\ LET available_cash == portfolio.cash
           current_holdings == GetHoldingsCount(portfolio)
           positions_to_add == locals.target_holdings - current_holdings
       IN  IF positions_to_add > 0 /\ available_cash > 0 /\ locals.top_stocks # <<>>
           THEN /\ locals' = [locals EXCEPT
                       !.total_portfolio_value = GetTotalValue(portfolio, locals.current_prices),
                       !.stock_rank = 1]
                /\ pc' = "buy"
           ELSE /\ pc' = "end"
                /\ UNCHANGED locals
    /\ UNCHANGED <<fixedVars, portfolio, i, prev_rebal_date, equity_curve, trade_log, result>>

(***************************************************************************)
(* portfolio_manager: position sizing.  A weight is a rational number of   *)
(* percent.                                                                *)
(***************************************************************************)
RatLess(a, b) == a.num * b.den < b.num * a.den
RatMin(a, b) == IF RatLess(b, a) THEN b ELSE a
RatMax(a, b) == IF RatLess(a, b) THEN b ELSE a

\* int((total_capital * (weight / 100)) / stock_price)
SharesAtWeight(total_capital, stock_price, weight) ==
    MulDivFloor(total_capital, weight.num, weight.den * 100 * stock_price * TicksPerSEK)

\* calculate_position_size(total_capital, stock_price, target_weight,
\* max_weight): the shares; actual_weight > max_weight iff
\* shares * stock_price * 100 > max_weight * total_capital.
CalculatePositionSize(total_capital, stock_price, target_weight, max_weight) ==
    LET shares == SharesAtWeight(total_capital, stock_price, target_weight)
    IN  IF shares * stock_price * TicksPerSEK * 100 * max_weight.den
               > max_weight.num * total_capital
        THEN SharesAtWeight(total_capital, stock_price, max_weight)
        ELSE shares

\* calculate_position_size_atr(total_capital, stock_price, atr,
\* account_risk_pct, atr_multiplier) with the default min_weight 1.0,
\* max_weight 5.0 and target_weight 2.5: [shares, method].  atr is
\* atr_sum / AtrPeriod, NaN when has_atr is false; raw_weight is
\* account_risk_pct * stock_price / (atr * atr_multiplier).
CalculatePositionSizeAtr(total_capital, stock_price, has_atr, atr_sum, account_risk_pct, atr_multiplier) ==
    IF ~has_atr \/ atr_sum <= 0
    THEN [shares |-> CalculatePositionSize(total_capital, stock_price,
                                           Rat(5, 2), Rat(5, 1)),
          method |-> "fixed"]
    ELSE LET raw_weight == Rat(account_risk_pct * stock_price * AtrPeriod,
                               atr_sum * atr_multiplier)
             constrained_weight == RatMax(Rat(1, 1), RatMin(Rat(5, 1), raw_weight))
         IN  [shares |-> SharesAtWeight(total_capital, stock_price, constrained_weight),
              method |-> "atr"]

\* calculate_conviction_weight(stock_rank, total_stocks, tier1_count,
\* tier1_weight_pct, tier2_count, tier2_weight_pct, tier3_weight_pct)
CalculateConvictionWeight(stock_rank, total_stocks, tier1_count, tier1_weight_pct, tier2_count, tier2_weight_pct, tier3_weight_pct) ==
    IF stock_rank <= tier1_count THEN Rat(tier1_weight_pct, tier1_count)
    ELSE IF stock_rank <= tier1_count + tier2_count
    THEN Rat(tier2_weight_pct, tier2_count)
    ELSE Rat(tier3_weight_pct, Max(1, total_stocks - tier1_count - tier2_count))

\* calculate_position_size_conviction(total_capital, stock_price,
\* conviction_weight) with the default max_weight 5.0: the shares.
CalculatePositionSizeConviction(total_capital, stock_price, conviction_weight) ==
    SharesAtWeight(total_capital, stock_price, RatMin(conviction_weight, Rat(5, 1)))

\* A sizing that is conviction-weighted for the top-ranked stock only.
AmountPerStockTopOnly(cfg, total_portfolio_value, price, stock_rank, target_holdings, period_stocks, ticker) ==
    IF cfg.use_conviction_weighting /\ stock_rank = 1
    THEN [amount |-> CalculatePositionSizeConviction(total_portfolio_value, price,
                         CalculateConvictionWeight(stock_rank, target_holdings,
                             cfg.conviction_tier1_count, cfg.conviction_tier1_weight,
                             cfg.conviction_tier2_count, cfg.conviction_tier2_weight,
                             cfg.conviction_tier3_weight)) * price * TicksPerSEK,
          sizing |-> "conviction"]
    ELSE [amount |-> total_portfolio_value \div 40, sizing |-> "fixed percent"]

\* Lines 454-489: amount_per_stock and the branch that set it; the ATR
\* branch reports debug_info['method'].
AmountPerStock(cfg, total_portfolio_value, price, stock_rank, target_holdings, period_stocks, ticker) ==
    IF cfg.use_conviction_weighting
    THEN LET conviction_weight ==
                 CalculateConvictionWeight(stock_rank, target_holdings,
                     cfg.conviction_tier1_count, cfg.conviction_tier1_weight,
                     cfg.conviction_tier2_count, cfg.conviction_tier2_weight,
                     cfg.conviction_tier3_weight)
             shares == CalculatePositionSizeConviction(total_portfolio_value, price,
                                                       conviction_weight)
         IN  [amount |-> shares * price * TicksPerSEK, sizing |-> "conviction"]
    ELSE IF cfg.use_atr_sizing /\ ticker \in SnapshotTickers(period_stocks)
    THEN LET df == SnapshotDf(period_stocks, ticker)
             r == CalculatePositionSizeAtr(total_portfolio_value, price,
                      HasAtr(df, Len(df)), AtrSum(df, Len(df), Min(AtrPeriod, Len(df))),
                      cfg.atr_account_risk, cfg.atr_multiplier)
         IN  [amount |-> r.shares * price * TicksPerSEK,
              sizing |-> IF r.method = "atr" THEN "atr" ELSE "atr fallback"]
    \* total_portfolio_value * 0.025
    ELSE [amount |-> total_portfolio_value \div 40, sizing |-> "fixed percent"]

\* A trade log that gets a record whatever portfolio.buy returned.
TradeLogAfterBuyAlways(log, returned, record) ==
    Append(log, record)

\* Lines 491-499: the trade log after portfolio.buy has returned.
TradeLogAfterBuy(log, returned, record) ==
    IF returned THEN Append(log, record) ELSE log

\* Lines 447-502, one pass of the loop over top_stocks.
BuyStep ==
    /\ pc = "buy"
    /\ LET row == locals.top_stocks[locals.stock_rank]
           ticker == row.ticker
           eligible == ticker \notin HeldTickers(portfolio)
                       /\ ticker \in DOMAIN locals.current_prices
           price == locals.current_prices[ticker]
           sized == AmountPerStock(config, locals.total_portfolio_value, price,
                                   locals.stock_rank, locals.target_holdings,
                                   locals.period_stocks, ticker)
           amount_per_stock == sized.amount
           r == IF eligible
                THEN Buy(portfolio, ticker, amount_per_stock, price, config.transaction_cost)
                ELSE [ok |-> FALSE, p |-> portfolio]
       IN  /\ portfolio' = r.p
           /\ trade_log' = IF eligible
                           THEN TradeLogAfterBuy(trade_log, r.ok,
                                  [date |-> RebalDate, action |-> "BUY", ticker |-> ticker,
                                   price |-> price, reason |-> "", score |-> row.score])
                           ELSE trade_log
           /\ locals' = [locals EXCEPT
                  !.stock_rank = @ + 1,
                  !.buy_calls = IF eligible
                                THEN Append(@, [ticker |-> ticker, returned |-> r.ok,
                                                stock_rank |-> locals.stock_rank,
                                                price |-> price,
                                                amount |-> amount_per_stock,
                                                sizing |-> sized.sizing])
                                ELSE @,
                  !.buys = IF r.ok
                           THEN Append(@, [ticker |-> ticker, stock_rank |-> locals.stock_rank,
                                           held |-> HeldTickers(portfolio)])
                           ELSE @]
           /\ pc' = IF GetHoldingsCount(r.p) >= locals.target_holdings
                       \/ locals.stock_rank = Len(locals.top_stocks)
                    THEN "end" ELSE "buy"
    /\ UNCHANGED <<fixedVars, i, prev_rebal_date, equity_curve, result>>

\* The end of an iteration: on to the next rebalance date.
EndStep ==
    /\ pc = "end"
    /\ i' = i + 1
    /\ pc' = "collect"
    /\ UNCHANGED <<fixedVars, portfolio, prev_rebal_date, equity_curve, trade_log,
                   locals, result>>

\* calculate_performance_metrics(equity_curve, initial_capital, ...): {} for
\* an empty curve, otherwise the bundle computed from the value of the last
\* equity curve point; total_return is a rational number of percent, and the
\* CAGRs, which are functions of final_value, initial_capital and the dates,
\* are left out.
CalculatePerformanceMetrics(curve, initial_capital, total_dividends, total_isk_tax) ==
    IF curve = <<>> THEN <<>>
    ELSE LET final_value == curve[Len(curve)].value
         IN  [final_value |-> final_value,
              total_return |-> Rat((final_value - initial_capital) * 100, initial_capital),
              total_dividends |-> total_dividends,
              total_isk_tax |-> total_isk_tax]

\* Lines 504-549: the final valuation at the last rebalance date's prices.
Finish ==
    /\ pc = "collect"
    /\ i > Len(rebalance_dates)
    /\ LET final_date   == rebalance_dates[Len(rebalance_dates)]
           final_stocks == FetchHistoricalSnapshot(config.stocks, market.stocks, final_date)
           final_prices == CurrentPrices(final_stocks)
       IN  result' = [metrics |-> CalculatePerformanceMetrics(equity_curve,
                                      config.initial_capital, portfolio.total_dividends,
                                      portfolio.total_isk_tax),
                      final_value |-> GetTotalValue(portfolio, final_prices),
                      final_holdings |-> portfolio.holdings,
                      equity_curve |-> equity_curve,
                      trade_log |-> trade_log]
    /\ pc' = "done"
    /\ UNCHANGED <<fixedVars, portfolio, i, prev_rebal_date, equity_curve, trade_log, locals>>

Next ==
    \/ CollectStep
    \/ TaxStep
    \/ SnapshotStep
    \/ RegimeStep
    \/ ScreenStep
    \/ SellStep
    \/ BuyBegin
    \/ BuyStep
    \/ EndStep
    \/ Finish

\* A run of backtest_strategy on one market, configuration and outage.
Spec == Init /\ [][Next]_vars

\* A Portfolio object, used on its own or by a run of backtest_strategy.
NextAny ==
    \/ pc = "none" /\ NextPortfolio
    \/ pc # "none" /\ Next

SpecAny == (InitPortfolio \/ Init) /\ [][NextAny]_vars

(***************************************************************************)
(* Runs under each position sizing: 10,000 SEK, the conviction tiers one   *)
(* stock wide (4%, 3% and 6% of the capital), and a stock that has stopped *)
(* moving, whose true range and ATR are 0.                                 *)
(***************************************************************************)
PathFlat ==
    [k \in 1..7 |->
        [date |-> BarDates[k], close |-> IF k = 1 THEN 50 ELSE 100,
         high |-> IF k = 1 THEN 50 ELSE 100, low |-> IF k = 1 THEN 50 ELSE 100]]

SizingMarkets ==
    {[stocks |-> st, index |-> ix, dividends |-> Dividends, quality |-> Quality] :
        st \in {f \in [Tickers -> UNION {StockPaths[t] : t \in Tickers} \cup {PathFlat}] :
                   \A t \in Tickers : f[t] \in StockPaths[t] \cup
                                                (IF t = "A" THEN {} ELSE {PathFlat})},
        ix \in {IndexBull, IndexBullBear}}

SizingConfigs ==
    {[stocks |-> Stocks, start_date |-> StartDate, end_date |-> EndDate,
      initial_capital |-> 10000 * TicksPerSEK, rebalance_frequency |-> "monthly",
      max_holdings |-> mh, transaction_cost |-> DefaultCost,
      use_dynamic_regime |-> FALSE, max_holdings_dynamic |-> 2,
      use_atr_sizing |-> atr, atr_account_risk |-> 1, atr_multiplier |-> 2,
      use_conviction_weighting |-> conviction,
      conviction_tier1_count |-> 1, conviction_tier1_weight |-> 4,
      conviction_tier2_count |-> 1, conviction_tier2_weight |-> 3,
      conviction_tier3_weight |-> 6] :
        mh \in {1, 3}, atr \in BOOLEAN, conviction \in BOOLEAN}

InitSizing ==
    /\ config \in SizingConfigs
    /\ market \in SizingMarkets
    /\ outage = NoOutage
    /\ portfolio = NewPortfolio(config.initial_capital)
    /\ rebalance_dates = GenerateRebalanceDates(config.start_date, config.end_date,
                                                config.rebalance_frequency).dates
    /\ i = 1
    /\ prev_rebal_date = config.start_date
    /\ equity_curve = <<>>
    /\ trade_log = <<>>
    /\ locals = NewLocals
    /\ result = <<>>
    /\ pc = "collect"
    /\ lastOp = NoCalls(portfolio)
    /\ nOps = 0

SpecSizing == InitSizing /\ [][Next]_vars

(***************************************************************************)
(* The drawdown adjustment of a rebalance step (lines 381-393) on its own: *)
(* a portfolio of 10,000 SEK puts half or all of it into A at 100 SEK      *)
(* without fees, and the step then runs at some price of A and with some   *)
(* target from the regime.                                                 *)
(***************************************************************************)
DrawdownCapital == 10000 * TicksPerSEK
DrawdownPrices == 70..105
Targets == {5, 10, 20, 40, 60, 70, 80, 90}

InitDrawdown ==
    /\ portfolio = NewPortfolio(DrawdownCapital)
    /\ lastOp = NoCalls(portfolio)
    /\ nOps = 0
    /\ NoRun

DrawdownInvest ==
    \E amount \in {DrawdownCapital \div 2, DrawdownCapital} :
        LET r == Buy(portfolio, "A", amount, 100, 0)
        IN  /\ nOps = 0
            /\ portfolio' = r.p
            /\ lastOp' = Logged([op |-> "buy", ticker |-> "A", amount |-> amount,
                                    price |-> 100, ok |-> r.ok,
                                    returned |-> 0, args |-> <<>>],
                                {}, IF r.ok THEN {"A"} ELSE {})
            /\ nOps' = nOps + 1
            /\ UNCHANGED runVars

\* Lines 381-393 at the price `price` of A and the regime's target.
DrawdownAdjust ==
    \E price \in DrawdownPrices, target_holdings \in Targets :
        LET current_prices == [t \in {"A"} |-> price]
            dd == GetDrawdownAdjustment(portfolio, current_prices)
        IN  /\ nOps > 0
            /\ nOps < MaxOps
            /\ portfolio' = dd.p
            /\ lastOp' = Logged([op |-> "adjust_target", ticker |-> "",
                                    amount |-> 0, price |-> price, ok |-> TRUE,
                                    returned |-> dd.drawdown, args |-> current_prices,
                                    size_multiplier |-> dd.size_multiplier,
                                    risk_level |-> dd.risk_level,
                                    target_holdings |-> target_holdings,
                                    adjusted_target |->
                                        AdjustedTarget(target_holdings, dd.size_multiplier)],
                                {}, {})
            /\ nOps' = nOps + 1
            /\ UNCHANGED runVars

NextDrawdown ==
    \/ DrawdownInvest
    \/ DrawdownAdjust

SpecDrawdown == InitDrawdown /\ [][NextDrawdown]_vars

(***************************************************************************)
(* The start of a run over start dates, end dates and frequencies: line    *)
(* 274 calls generate_rebalance_dates, and with an empty list of dates the *)
(* loop of line 296 has nothing to do and line 505 reads                   *)
(* rebalance_dates[-1].                                                    *)
(***************************************************************************)
IsDate(d) ==
    /\ MonthOf(d) \in 1..12
    /\ DayOf(d) \in 1..DaysInMonth(YearOf(d), MonthOf(d))

\* Every day from StartDate to EndDate.
StartDates == {d \in StartDate..EndDate : IsDate(d)}
EndDates == {20251115, EndDate, 20260315}
Frequencies == {"monthly", "weekly", "quarterly"}

DateConfigs ==
    {[c EXCEPT !.start_date = s, !.end_date = e, !.rebalance_frequency = f] :
        c \in {d \in Configs : d.initial_capital = 200000 * TicksPerSEK
                                /\ d.max_holdings = 3 /\ ~d.use_dynamic_regime},
        s \in StartDates, e \in EndDates, f \in Frequencies}

InitDates ==
    /\ config \in DateConfigs
    /\ portfolio = NewPortfolio(config.initial_capital)
    /\ lastOp = NoCalls(portfolio)
    /\ nOps = 0
    /\ market = <<>> /\ outage = <<>> /\ rebalance_dates = <<>>
    /\ i = 0 /\ prev_rebal_date = 0 /\ equity_curve = <<>> /\ trade_log = <<>>
    /\ locals = <<>> /\ result = <<>>
    /\ pc = "start"

\* Line 274.  rebalance_dates holds what the call has appended to `dates`
\* when it returns, raises or stops advancing.
GenerateDatesStep ==
    /\ pc = "start"
    /\ LET g == GenerateRebalanceDates(config.start_date, config.end_date,
                                       config.rebalance_frequency)
       IN  /\ rebalance_dates' = g.dates
           /\ pc' = IF g.outcome = "ok" THEN "dates" ELSE g.outcome
    /\ UNCHANGED <<portfolio, lastOp, nOps, config, market, outage, i, prev_rebal_date,
                   equity_curve, trade_log, locals, result>>

\* Lines 296 and 505 with no rebalance date.
RunOverNoDates ==
    /\ pc = "dates"
    /\ rebalance_dates = <<>>
    /\ pc' = "IndexError"
    /\ UNCHANGED <<portfolio, lastOp, nOps, config, market, outage, rebalance_dates, i,
                   prev_rebal_date, equity_curve, trade_log, locals, result>>

NextDates ==
    \/ GenerateDatesStep
    \/ RunOverNoDates

SpecDates == InitDates /\ [][NextDates]_vars

(***************************************************************************)
(* calculate_stock_score on its own, over price series, benchmark returns, *)
(* fundamentals and flags.                                                 *)
(***************************************************************************)
ScoreCloses == {92, 98, 100, 108}

\* Series of MacdBars bars, and shorter ones that have no slow average; the
\* high of a bar is its close, or an intraday spike on the second bar, which
\* is within the year of the last bar and before the bars of its slow
\* average.
ScoreSeries ==
    {[k \in 1..len |->
         [date |-> BarDates[k], close |-> closes[k],
          high |-> IF spike /\ k = 2 THEN 4 * closes[k] ELSE closes[k],
          low |-> closes[k]]] :
        len \in {SlowWindow - 1} \cup {MacdBars},
        closes \in [1..MacdBars -> ScoreCloses], spike \in BOOLEAN}

\* (bench_3m, bench_6m) in thousandths of a percent.
ScoreBenchmarks == {<<0, 0>>, <<50000, 50000>>}

InitScore ==
    /\ locals \in [ticker : {"A"}, df : ScoreSeries, benchmark_returns : ScoreBenchmarks,
                    quality_score : {0, 25}, include_fundamentals : BOOLEAN,
                    use_indicator_confirmation : BOOLEAN]
    /\ portfolio = NewPortfolio(0)
    /\ lastOp = NoCalls(portfolio)
    /\ nOps = 0
    /\ config = <<>> /\ market = <<>> /\ outage = <<>> /\ rebalance_dates = <<>>
    /\ i = 0 /\ prev_rebal_date = 0 /\ equity_curve = <<>> /\ trade_log = <<>>
    /\ result = <<>>
    /\ pc = "start"

ScoreStep ==
    /\ pc = "start"
    /\ result' = CalculateStockScoreFlags(locals.ticker, locals.df, locals.benchmark_returns,
                                          locals.quality_score, locals.include_fundamentals,
                                          locals.use_indicator_confirmation)
    /\ pc' = "scored"
    /\ UNCHANGED <<portfolio, lastOp, nOps, config, market, outage, rebalance_dates, i,
                   prev_rebal_date, equity_curve, trade_log, locals>>

NextScore == ScoreStep

SpecScore == InitScore /\ [][NextScore]_vars

(***************************************************************************)
(* Claims about the Portfolio methods, checked under SpecPortfolio.        *)
(***************************************************************************)
\* The ticker's position in portfolio q as [shares, entry_price], shares 0
\* when it is not held.
PositionOrNone(q, ticker) ==
    IF ticker \in HeldTickers(q)
    THEN [shares |-> Position(q, ticker).shares,
          entry_price |-> Position(q, ticker).entry_price]
    ELSE [shares |-> 0, entry_price |-> Rat(0, 1)]

\* C3: cash is never negative, in every state reachable from
\* Portfolio(initial_capital) by buy, sell, sell_all, collect_dividends and
\* pay_isk_tax calls.
C3_CashNeverNegative == portfolio.cash >= 0

\* C8: a Portfolio operation that must be rejected (a buy whose amount with
\* fees exceeds cash, a buy of less than one share, a sell of a ticker that is
\* not held) returns false, and every operation that returns false leaves
\* cash, holdings, dividends, tax and peak_value exactly as they were.
C8_RejectedIsNoOp ==
    LET c == lastOp.call
        b == lastOp.before
    IN  /\ (c.op = "buy" /\ CostWithFeesExceeds(c.amount, DefaultCost, b.cash)) => ~c.ok
        /\ (c.op = "buy" /\ c.amount < c.price * TicksPerSEK) => ~c.ok
        /\ (c.op = "sell" /\ c.ticker \notin HeldTickers(b)) => ~c.ok
        /\ ~c.ok => portfolio = b

\* A buy was rejected for lack of cash, another for buying no share, and a
\* sell for a ticker not held: here the first, on a portfolio with holdings.
C8_Witness ==
    /\ lastOp.call.op = "buy"
    /\ ~lastOp.call.ok
    /\ lastOp.before.holdings # <<>>
    /\ CostWithFeesExceeds(lastOp.call.amount, DefaultCost, lastOp.before.cash)

\* The postcondition of a successful buy, without the worked example.
BuyPostcondition ==
    LET c      == lastOp.call
        b      == lastOp.before
        shares == c.amount \div (c.price * TicksPerSEK)
        old    == PositionOrNone(b, c.ticker)
        new    == PositionOrNone(portfolio, c.ticker)
    IN  (c.op = "buy" /\ c.ok) =>
            /\ new.shares = old.shares + shares
            /\ portfolio.cash = b.cash - shares * c.price * (TicksPerSEK + DefaultCost)
            /\ HeldTickers(portfolio) = HeldTickers(b) \cup {c.ticker}
            /\ \A t \in Tickers \ {c.ticker} :
                   PositionOrNone(portfolio, t) = PositionOrNone(b, t)
            \* total_shares * avg_cost = old_shares * old_avg_cost + shares * price
            /\ new.shares * new.entry_price.num * old.entry_price.den
                 = (old.shares * old.entry_price.num
                    + shares * c.price * old.entry_price.den) * new.entry_price.den
            /\ (old.shares = 0 => new.entry_price = Rat(c.price, 1))

\* Scenario 1: capital 100,000, buy 100 shares @ 250 at 0.25%.
BuyScenario ==
    /\ lastOp.call.op = "buy" /\ lastOp.call.ok
    /\ lastOp.before = NewPortfolio(100000 * TicksPerSEK)
    /\ lastOp.call.amount = 25000 * TicksPerSEK
    /\ lastOp.call.price = 250

\* C9 as stated: a successful buy adds floor(amount/price) shares, debits
\* shares x price x (1+cost_rate), leaves the other positions alone and sets
\* the weighted average cost; capital 100,000, buy 100 @ 250 at 0.25% leaves
\* cash 74,375 and {shares 100, avg_cost 250}.
C9_AsStated ==
    /\ BuyPostcondition
    /\ BuyScenario =>
          /\ portfolio.cash = 74375 * TicksPerSEK
          /\ PositionOrNone(portfolio, lastOp.call.ticker)
                 = [shares |-> 100, entry_price |-> Rat(250, 1)]

\* C9 amended: the same postcondition; the example leaves cash 74,937.50
\* (100,000 - 100 x 250 x 1.0025), which is 29,975,000 ticks.
C9_BuyPostcondition ==
    /\ BuyPostcondition
    /\ BuyScenario =>
          /\ portfolio.cash * 2 = 149875 * TicksPerSEK
          /\ PositionOrNone(portfolio, lastOp.call.ticker)
                 = [shares |-> 100, entry_price |-> Rat(250, 1)]

\* A successful buy of a ticker that was already held at another price: the
\* average cost is a proper weighted average.
C9_Witness ==
    /\ lastOp.call.op = "buy" /\ lastOp.call.ok
    /\ lastOp.call.ticker \in HeldTickers(lastOp.before)
    /\ Position(lastOp.before, lastOp.call.ticker).entry_price # Rat(lastOp.call.price, 1)

\* The postcondition of a successful sell, without the worked example.
SellPostcondition ==
    LET c   == lastOp.call
        b   == lastOp.before
        old == PositionOrNone(b, c.ticker)
    IN  (c.op = "sell" /\ c.ok) =>
            /\ old.shares > 0
            /\ c.ticker \notin HeldTickers(portfolio)
            /\ portfolio.cash = b.cash + old.shares * c.price * (TicksPerSEK - DefaultCost)
            /\ HeldTickers(portfolio) = HeldTickers(b) \ {c.ticker}
            /\ \A t \in Tickers \ {c.ticker} :
                   PositionOrNone(portfolio, t) = PositionOrNone(b, t)

\* Scenario 2: cash 74,375 and 100 shares, all sold @ 260 at 0.25%.
SellScenario ==
    /\ lastOp.call.op = "sell" /\ lastOp.call.ok
    /\ lastOp.before.cash = 74375 * TicksPerSEK
    /\ Len(lastOp.before.holdings) = 1
    /\ PositionOrNone(lastOp.before, lastOp.call.ticker).shares = 100
    /\ lastOp.call.price = 260

\* C10 as stated: a successful sell liquidates the whole position, credits
\* shares x price x (1-cost_rate), removes the ticker and leaves the other
\* positions alone; selling 100 @ 260 at 0.25% from cash 74,375 gives cash
\* 100,320.50 and empty holdings.
C10_AsStated ==
    /\ SellPostcondition
    /\ SellScenario =>
          /\ portfolio.cash * 2 = 200641 * TicksPerSEK
          /\ portfolio.holdings = <<>>

\* C10 amended: the same postcondition; the example gives cash 100,310.00
\* (74,375 + 100 x 260 x 0.9975).
C10_SellPostcondition ==
    /\ SellPostcondition
    /\ SellScenario =>
          /\ portfolio.cash = 100310 * TicksPerSEK
          /\ portfolio.holdings = <<>>

\* Scenario 2 has happened.
C10_Witness == SellScenario


(***************************************************************************)
(* Claims about a run of backtest_strategy, checked under Spec.            *)
(***************************************************************************)
\* The run is inside the iteration for RebalDate, past its snapshot.
InStep == pc \in {"regime", "screen", "sell", "buy", "end", "AttributeError"}

\* The run is inside the iteration, past the choice of its target.
PastRegime == pc \in {"screen", "sell", "buy", "end"} /\ locals.regime # ""

\* Two providers agree on every bar dated <= D, of the stocks and the index.
AgreeUpTo(m1, m2, D) ==
    /\ \A t \in Tickers : Truncate(m1.stocks[t], D) = Truncate(m2.stocks[t], D)
    /\ Truncate(m1.index, D) = Truncate(m2.index, D)

\* What fetch_stock_data returns in this iteration were the provider m.
FetchedFrom(m) ==
    [t \in Tickers |-> IF outage.date = RebalDate /\ t \in outage.tickers
                       THEN <<>> ELSE m.stocks[t]]

\* C1: no lookahead for prices and scoring.  At every rebalance date D the
\* snapshot, the current prices and the screened ranking (tickers, order and
\* scores, fundamentals fixed) are those of any provider that agrees with the
\* actual one on the bars dated <= D; the snapshot has no bar dated after D,
\* and no ticker with fewer than the slow window of bars dated <= D.
C1_NoLookahead ==
    InStep =>
        /\ \A k \in DOMAIN locals.period_stocks :
               \A j \in DOMAIN locals.period_stocks[k].df :
                   locals.period_stocks[k].df[j].date <= RebalDate
        /\ \A t \in Tickers :
               Len(Truncate(market.stocks[t], RebalDate)) < SlowWindow
                   => t \notin SnapshotTickers(locals.period_stocks)
        /\ \A m2 \in Markets :
               AgreeUpTo(market, m2, RebalDate) =>
                   LET snapshot2 == FetchHistoricalSnapshot(config.stocks, FetchedFrom(m2),
                                                            RebalDate)
                   IN  /\ snapshot2 = locals.period_stocks
                       /\ CurrentPrices(snapshot2) = locals.current_prices
                       /\ locals.screened =>
                              ScreenStocksHistorical(snapshot2, m2.index, m2.quality, RebalDate)
                                  = locals.screened_stocks

\* A step that ranked two stocks while a third, listed late, had too few bars
\* to be in the snapshot, on a market whose later bars could have been others.
C1_Witness ==
    /\ pc = "sell"
    /\ Len(locals.screened_stocks) = 2
    /\ market.stocks["C"] = PathLate
    /\ "C" \notin SnapshotTickers(locals.period_stocks)
    /\ \E m2 \in Markets :
           /\ AgreeUpTo(market, m2, RebalDate)
           /\ m2.stocks["A"] # market.stocks["A"]
           /\ m2.index # market.index

\* C2: no lookahead for the regime.  At every rebalance date D the regime
\* label and the target holding count, under the simple and under the dynamic
\* variant, are those any index history agreeing with the actual one on the
\* bars dated <= D would give.
C2_RegimeNoLookahead ==
    PastRegime =>
        \A index2 \in IndexPaths :
            Truncate(index2, RebalDate) = Truncate(market.index, RebalDate) =>
                LET chosen2 == ChooseRegime(config, index2, locals.period_stocks, RebalDate)
                IN  /\ chosen2.regime = locals.regime
                    /\ (chosen2.target_holdings * locals.size_multiplier) \div 100
                           = locals.target_holdings

\* The last close of a series as of date D.
LastCloseAsOf(df, D) == LastClose(Truncate(df, D))

RECURSIVE MarketValue(_, _)
MarketValue(h, D) ==
    IF h = <<>> THEN 0
    ELSE Head(h).shares * LastCloseAsOf(market.stocks[Head(h).ticker], D) * TicksPerSEK
         + MarketValue(Tail(h), D)

\* C4: valuation invariant.  At every equity curve point the recorded value
\* is the recorded cash plus, over the held tickers, shares x the ticker's
\* last close as of the point's date, and the recorded cash and holdings count
\* are those of the portfolio before the date's trades.
C4_ValuationInvariant ==
    pc = "regime" =>
        LET point == equity_curve[Len(equity_curve)]
        IN  /\ point.date = RebalDate
            /\ point.cash = portfolio.cash
            /\ point.holdings = GetHoldingsCount(portfolio)
            /\ point.value = point.cash + MarketValue(portfolio.holdings, point.date)

\* The ticker's last close as of D is below its slow moving average there.
BelowMA200AsOf(df, D) ==
    LET d == Truncate(df, D)
    IN  /\ HasMA(d, Len(d), SlowWindow)
        /\ LastClose(d) * SlowWindow < WindowSum(d, Len(d), SlowWindow)

\* C5: sell phase.  After the step of a rebalance date that had price data,
\* no held ticker is outside the date's target set, and none has its last
\* close below its slow moving average.
C5_SellPhase ==
    (pc = "end" /\ locals.had_data) =>
        \A t \in HeldTickers(portfolio) :
            /\ t \in locals.target_tickers
            /\ ~BelowMA200AsOf(market.stocks[t], RebalDate)

\* C6: buy phase bound.  Every buy of a step is made with fewer held tickers
\* than the step's adjusted target, of a ticker not held, and in the order of
\* the candidate list, which is by descending score; at the end of the step
\* the number of held tickers is at most the step's target.
C6_BuyPhaseBound ==
    /\ InStep =>
          /\ \A k \in DOMAIN locals.buys :
                 /\ Cardinality(locals.buys[k].held) < locals.target_holdings
                 /\ locals.buys[k].ticker \notin locals.buys[k].held
                 /\ locals.top_stocks[locals.buys[k].stock_rank].ticker = locals.buys[k].ticker
                 /\ k > 1 => locals.buys[k - 1].stock_rank < locals.buys[k].stock_rank
          /\ \A k \in 1..(Len(locals.top_stocks) - 1) :
                 locals.top_stocks[k].score >= locals.top_stocks[k + 1].score
    /\ (pc = "end" /\ locals.regime # "") =>
          GetHoldingsCount(portfolio) <= locals.target_holdings

\* C7: configured maximum.  The number of held positions never exceeds
\* max_holdings, or max_holdings_dynamic under use_dynamic_regime.
C7_ConfiguredMaximum ==
    pc # "none" =>
        GetHoldingsCount(portfolio) <= IF config.use_dynamic_regime
                                       THEN config.max_holdings_dynamic
                                       ELSE config.max_holdings

(***************************************************************************)
(* Claims about the Portfolio object in any use, checked under             *)
(* SpecPortfolio or SpecAny.                                               *)
(***************************************************************************)
\* C11: sell-then-buy consistency.  After a successful sell of T, T is absent
\* from holdings and stays absent whatever is done with other tickers; the
\* next successful buy of T makes a position whose shares and average cost
\* are those of that buy alone.
C11_SellThenBuy ==
    LET c == lastOp.call
    IN  /\ (c.op = "sell" /\ c.ok) => c.ticker \notin HeldTickers(portfolio)
        /\ lastOp.sold \cap HeldTickers(portfolio) = {}
        /\ (c.op = "buy" /\ c.ok /\ c.ticker \in lastOp.sold_before) =>
               Position(portfolio, c.ticker)
                   = [ticker |-> c.ticker,
                      shares |-> c.amount \div (c.price * TicksPerSEK),
                      entry_price |-> Rat(c.price, 1)]

\* T was bought, sold, and is bought again at another price while another
\* ticker is held.
C11_Witness ==
    /\ lastOp.call.op = "buy" /\ lastOp.call.ok
    /\ lastOp.call.ticker \in lastOp.sold_before
    /\ lastOp.call.price = 260
    /\ lastOp.before.holdings # <<>>
    /\ \E k \in DOMAIN lastOp.before.holdings :
           lastOp.before.holdings[k].entry_price = Rat(250, 1)

\* The tickers whose last record in the trade log is a BUY.
LastTradeIsBuy ==
    {t \in Tickers :
        \E k \in DOMAIN trade_log :
            /\ trade_log[k].ticker = t /\ trade_log[k].action = "BUY"
            /\ \A j \in (k + 1)..Len(trade_log) : trade_log[j].ticker # t}

\* C12: holdings-count invariant.  Every ticker in holdings has a share count
\* > 0; get_holdings_count(), and the holdings field of the equity curve
\* point just recorded, is the number of tickers with shares > 0; the tickers
\* in holdings are those bought and not sold since.
C12_HoldingsCount ==
    LET positive == {t \in Tickers : PositionOrNone(portfolio, t).shares > 0}
    IN  /\ \A k \in DOMAIN portfolio.holdings : portfolio.holdings[k].shares > 0
        /\ GetHoldingsCount(portfolio) = Cardinality(positive)
        /\ HeldTickers(portfolio) = IF pc = "none" THEN lastOp.bought ELSE LastTradeIsBuy
        /\ pc = "regime" =>
               equity_curve[Len(equity_curve)].holdings = Cardinality(positive)

\* An equity curve point recorded with two tickers held after a third was
\* sold.
C12_Witness ==
    /\ pc = "regime"
    /\ equity_curve[Len(equity_curve)].holdings = 2
    /\ \E k \in DOMAIN trade_log : trade_log[k].action = "SELL"

\* C13: drawdown monotonicity.  peak_value never decreases and is at least
\* initial_capital; every drawdown returned is >= 0; and
\* get_drawdown_adjustment changes nothing but peak_value.
C13_DrawdownMonotone ==
    /\ [](portfolio.peak_value >= portfolio.initial_capital)
    /\ [](lastOp.call.op = "get_drawdown_adjustment" =>
             /\ lastOp.call.returned >= 0
             /\ portfolio = [lastOp.before EXCEPT !.peak_value = portfolio.peak_value])
    /\ [](pc # "none" => locals.drawdown >= 0)
    /\ [][portfolio'.peak_value >= portfolio.peak_value]_vars
    /\ [][pc = "regime" =>
             portfolio' = [portfolio EXCEPT !.peak_value = portfolio'.peak_value]]_vars

\* A drawdown: the value is below a peak that is above the initial capital.
C13_Witness ==
    /\ pc = "screen"
    /\ portfolio.peak_value > portfolio.initial_capital
    /\ locals.drawdown > 0

(***************************************************************************)
(* The equity curve and the trade log of a run.                            *)
(***************************************************************************)
\* The rebalance dates whose snapshot the run has already fetched.
DatesReached ==
    IF pc \in {"collect", "tax", "snapshot"} THEN i - 1
    ELSE Min(i, Len(rebalance_dates))

CurveDates == [k \in DOMAIN equity_curve |-> equity_curve[k].date]

IsPrefix(s, t) == Len(s) <= Len(t) /\ s = SubSeq(t, 1, Len(s))

\* C14: the equity curve has exactly one point for every generated rebalance
\* date the run has reached, in strictly increasing date order, and a point
\* once appended is never modified or removed.
C14_EquityCurveComplete ==
    /\ [](CurveDates = SubSeq(rebalance_dates, 1, DatesReached))
    /\ [](\A k \in 1..(Len(equity_curve) - 1) :
              equity_curve[k].date < equity_curve[k + 1].date)
    /\ [][IsPrefix(equity_curve, equity_curve')]_vars

\* What the code keeps of C14: the points are a subsequence of the dates
\* reached, one for each date that had price data.
C14_PointsOfDatesWithData ==
    /\ \A k \in 1..(Len(equity_curve) - 1) :
           equity_curve[k].date < equity_curve[k + 1].date
    /\ \A k \in DOMAIN equity_curve :
           \E j \in 1..DatesReached : rebalance_dates[j] = equity_curve[k].date
    /\ pc \in {"regime", "screen", "sell", "buy"} =>
           equity_curve # <<>> /\ equity_curve[Len(equity_curve)].date = RebalDate

C14_AppendOnly == [][IsPrefix(equity_curve, equity_curve')]_vars

\* The record, if any, that the step appends to the trade log.
Appended(action, t) ==
    /\ Len(trade_log') = Len(trade_log) + 1
    /\ trade_log'[Len(trade_log')].action = action
    /\ trade_log'[Len(trade_log')].ticker = t
    /\ trade_log'[Len(trade_log')].date = RebalDate

\* portfolio.buy returned `returned` for ticker t in the step.
BuyReturned(t, returned) ==
    /\ Len(locals'.buy_calls) = Len(locals.buy_calls) + 1
    /\ locals'.buy_calls[Len(locals'.buy_calls)].ticker = t
    /\ locals'.buy_calls[Len(locals'.buy_calls)].returned = returned

\* C15: the trade log is append-only; a step appends a BUY record of a ticker
\* at the rebalance date iff Portfolio.buy returned success for it in that
\* step, and a SELL record iff the ticker was held before the step and is
\* absent after it; a rejected buy leaves no record and the log has no other
\* records.
C15_TradeLogFidelity ==
    /\ [][/\ IsPrefix(trade_log, trade_log')
          /\ Len(trade_log') <= Len(trade_log) + 1
          /\ Len(trade_log') > Len(trade_log) =>
                \E t \in Tickers : Appended("BUY", t) \/ Appended("SELL", t)]_vars
    /\ [][\A t \in Tickers : Appended("BUY", t) <=> BuyReturned(t, TRUE)]_vars
    /\ [][\A t \in Tickers :
              Appended("SELL", t) <=> /\ t \in HeldTickers(portfolio)
                                      /\ t \notin HeldTickers(portfolio')]_vars
    /\ [][\A t \in Tickers :
              BuyReturned(t, FALSE) => trade_log' = trade_log /\ portfolio' = portfolio]_vars
    /\ [](\A k \in DOMAIN locals.buy_calls :
              (i <= Len(rebalance_dates) /\ ~locals.buy_calls[k].returned) =>
                  \A j \in DOMAIN trade_log :
                      ~(/\ trade_log[j].action = "BUY"
                        /\ trade_log[j].ticker = locals.buy_calls[k].ticker
                        /\ trade_log[j].date = RebalDate))

\* A rebalance in which portfolio.buy rejected a buy, in a run that has
\* bought and sold.
C15_Witness ==
    /\ \E k \in DOMAIN locals.buy_calls : ~locals.buy_calls[k].returned
    /\ \E j \in DOMAIN trade_log : trade_log[j].action = "SELL"
    /\ \E j \in DOMAIN trade_log : trade_log[j].action = "BUY"

(***************************************************************************)
(* Dates without price data.                                               *)
(***************************************************************************)
\* The provider returns no usable price data for the current rebalance date.
NoPriceData ==
    /\ pc \notin {"done", "none"}
    /\ i <= Len(rebalance_dates)
    /\ FetchHistoricalSnapshot(config.stocks, Fetched, RebalDate) = <<>>

\* C16: at a rebalance date for which the provider returns no price data, no
\* trade is executed or logged, the holdings stay as they were, prev_rebal_date
\* advances to the date, and the run goes on to the next date without raising.
C16_MissingDataPeriod ==
    /\ [](NoPriceData =>
             /\ pc \in {"collect", "tax", "snapshot", "end"}
             /\ \A j \in DOMAIN trade_log : trade_log[j].date # RebalDate
             /\ pc = "end" => prev_rebal_date = RebalDate)
    /\ [][NoPriceData =>
             /\ portfolio'.holdings = portfolio.holdings
             /\ trade_log' = trade_log
             /\ pc = "end" => /\ pc' = "collect"
                              /\ i' = i + 1
                              /\ prev_rebal_date' = prev_rebal_date]_vars
    /\ [](pc = "collect" => ENABLED (CollectStep \/ Finish))

\* A date without data, in the middle of a run that holds positions.
C16_Witness ==
    /\ NoPriceData
    /\ pc = "end"
    /\ portfolio.holdings # <<>>
    /\ trade_log # <<>>
    /\ i < Len(rebalance_dates)

(***************************************************************************)
(* The ISK tax in a run.                                                   *)
(***************************************************************************)
\* The generated rebalance date before the current one, the start date for
\* the first.
PrecedingDate == IF i = 1 THEN config.start_date ELSE rebalance_dates[i - 1]

AfterTaxStep == pc \in {"snapshot", "regime", "screen", "sell", "buy", "end",
                        "AttributeError"}

\* C17: pay_isk_tax is called at rebalance date d_i iff year(d_i) is later than
\* the year of the immediately preceding generated date, which is what
\* prev_rebal_date holds whatever that date had (no data, an empty screen);
\* it is called once, after the step's dividend collection and before its
\* snapshot, valuation and trading, and the tax total changes nowhere else.
C17_TaxTiming ==
    /\ []((pc \in {"collect", "tax", "snapshot"} /\ i <= Len(rebalance_dates)) =>
              prev_rebal_date = PrecedingDate)
    /\ [](pc = "tax" => ~locals.tax_assessed)
    /\ [](AfterTaxStep =>
              (locals.tax_assessed <=> YearOf(RebalDate) > YearOf(PrecedingDate)))
    /\ [][locals'.tax_assessed # locals.tax_assessed =>
              \/ pc = "tax" /\ pc' = "snapshot" /\ locals'.tax_assessed
              \/ pc = "collect" /\ pc' = "tax"]_vars
    /\ [][portfolio'.total_isk_tax # portfolio.total_isk_tax =>
              /\ pc = "tax"
              /\ locals'.tax_assessed
              /\ portfolio'.total_isk_tax = portfolio.total_isk_tax + locals'.isk_tax_paid]_vars
    /\ [][pc = "tax" =>
              /\ pc' = "snapshot"
              /\ locals'.period_dividends = locals.period_dividends
              /\ portfolio'.total_dividends = portfolio.total_dividends
              /\ portfolio'.holdings = portfolio.holdings
              /\ equity_curve' = equity_curve
              /\ trade_log' = trade_log
              /\ Len(equity_curve) < i /\ CurveDates # <<>> =>
                     equity_curve[Len(equity_curve)].date < RebalDate]_vars
    /\ [][pc' = "tax" => pc = "collect"]_vars

\* The tax of 2025 has been paid on the first date of 2026, the date before
\* it having had no price data.
C17_Witness ==
    /\ pc = "snapshot"
    /\ locals.tax_assessed
    /\ locals.isk_tax_paid > 0
    /\ RebalDate = 20260101
    /\ outage = [tickers |-> Tickers, date |-> 20251201]
    /\ portfolio.holdings # <<>>

\* The provider's last closes as of a date.
PricesAsOf(date) ==
    CurrentPrices(FetchHistoricalSnapshot(config.stocks, market.stocks, date))

\* C18: the value the tax is assessed on at a year rollover is the
\* portfolio's value as of the previous rebalance date: the cash and the
\* holdings it had after that date's step, at that date's prices, without the
\* dividends that went ex after that date.
C18_TaxBase ==
    (pc = "snapshot" /\ locals.tax_assessed) =>
        locals.value_before_tax =
            GetTotalValue([portfolio EXCEPT
                              !.cash = @ + locals.isk_tax_paid - locals.period_dividends],
                          PricesAsOf(prev_rebal_date))

\* What the code assesses when every fetch succeeds: the holdings at the
\* previous date's prices and the cash after this step's dividend collection.
C18_TaxBaseAsCoded ==
    (pc = "snapshot" /\ locals.tax_assessed /\ outage.date # RebalDate) =>
        locals.value_before_tax =
            GetTotalValue([portfolio EXCEPT !.cash = @ + locals.isk_tax_paid],
                          PricesAsOf(prev_rebal_date))

\* A rollover at which tax is paid on a value that holds a dividend collected
\* in the same step.
C18_DividendInTaxBase ==
    /\ pc = "snapshot" /\ locals.tax_assessed /\ outage = NoOutage
    /\ locals.period_dividends > 0
    /\ locals.isk_tax_paid > 0

(***************************************************************************)
(* pay_isk_tax and collect_dividends called on their own.                  *)
(***************************************************************************)
\* max(0, value - threshold) x rate in ticks, rounded down to a tick.
TaxDue(value, year) ==
    LET taxable == Max(0, value - TaxFreeAmount(year) * TicksPerSEK)
    IN  (taxable \div TaxRateDen) * TaxRateNum(year)
            + ((taxable % TaxRateDen) * TaxRateNum(year)) \div TaxRateDen

\* C19: pay_isk_tax(value, year) returns max(0, value - threshold) x rate,
\* debits it from cash and adds it to the cumulative tax, changing nothing
\* else; a value at or below the threshold returns 0 and changes nothing; a
\* value of 400,000 with threshold 300,000 and rate 1.065% gives 1,065.
C19_TaxFormula ==
    LET c == lastOp.call
        value == c.amount
        year == c.price
    IN  c.op = "pay_isk_tax" =>
            /\ c.returned = TaxDue(value, year)
            /\ portfolio = [lastOp.before EXCEPT
                               !.cash = @ - c.returned,
                               !.total_isk_tax = @ + c.returned]
            /\ value <= TaxFreeAmount(year) * TicksPerSEK =>
                   c.returned = 0 /\ portfolio = lastOp.before
            /\ (value = 400000 * TicksPerSEK /\ year = 2026) =>
                   /\ TaxFreeAmount(year) = 300000
                   /\ TaxRateNum(year) * 200000 = 2130 * TaxRateDen
                   /\ c.returned = 1065 * TicksPerSEK

\* The tax of 1,065 SEK on 400,000 SEK has been paid.
C19_Witness ==
    /\ lastOp.call.op = "pay_isk_tax"
    /\ lastOp.call.amount = 400000 * TicksPerSEK
    /\ lastOp.call.price = 2026
    /\ portfolio.total_isk_tax = lastOp.before.total_isk_tax + 1065 * TicksPerSEK
    /\ portfolio.holdings # <<>>

\* The dividend events (ticker, index in its series) that a portfolio with
\* holdings h is due in the period: the ticker held, start < ex_date <= end.
EventsDue(h, dividend_data, start, end) ==
    {e \in {<<h[k].ticker, n>> :
                k \in DOMAIN h,
                n \in UNION {DOMAIN dividend_data[t] : t \in DOMAIN dividend_data}} :
        /\ e[1] \in DOMAIN dividend_data
        /\ e[2] \in DOMAIN dividend_data[e[1]]
        /\ dividend_data[e[1]][e[2]].ex_date > start
        /\ dividend_data[e[1]][e[2]].ex_date <= end}

\* shares x amount_per_share, summed over a set of events.
RECURSIVE CreditOf(_, _, _)
CreditOf(events, h, dividend_data) ==
    IF events = {} THEN 0
    ELSE LET e == CHOOSE x \in events : TRUE
         IN  PositionOrNone([holdings |-> h], e[1]).shares * dividend_data[e[1]][e[2]].amount
                 + CreditOf(events \ {e}, h, dividend_data)

\* C20: collect_dividends(data, start, end) credits shares x amount_per_share
\* to cash and to the cumulative dividends for every held ticker and every
\* event with start < ex_date <= end, nothing for other tickers or events,
\* returns the sum, and leaves the holdings as they were.
C20_DividendCollection ==
    LET c == lastOp.call
        credit == CreditOf(EventsDue(lastOp.before.holdings, DividendData,
                                     c.args[1], c.args[2]),
                           lastOp.before.holdings, DividendData)
    IN  c.op = "collect_dividends" =>
            /\ c.returned = credit
            /\ portfolio.holdings = lastOp.before.holdings
            /\ portfolio = [lastOp.before EXCEPT !.cash = @ + credit,
                                                 !.total_dividends = @ + credit]

\* A and B are held over a period that starts on the ex-date of one event of
\* each and ends on the ex-date of A's other event: A's second dividend is
\* the only one credited.
C20_Witness ==
    /\ lastOp.call.op = "collect_dividends"
    /\ lastOp.call.args = <<20250315, 20250915>>
    /\ {"A", "B"} \subseteq HeldTickers(portfolio)
    /\ lastOp.call.returned = Position(portfolio, "A").shares * 3 * TicksPerSEK
    /\ portfolio.cash = lastOp.before.cash + lastOp.call.returned

(***************************************************************************)
(* The drawdown bands.                                                     *)
(***************************************************************************)
\* The multiplier (percent) and risk level of the band of a drawdown of
\* `down` from a peak `peak`: drawdown_pct < b iff down * 100 < b * peak.
BandOf(down, peak) ==
    IF down * 100 < 5 * peak THEN <<100, "NORMAL">>
    ELSE IF down * 100 < 10 * peak THEN <<85, "CAUTIOUS">>
    ELSE IF down * 100 < 15 * peak THEN <<70, "REDUCE">>
    ELSE IF down * 100 < 20 * peak THEN <<60, "DEFENSIVE">>
    ELSE <<50, "MAX_DEFENSIVE">>

\* The multiplier and the risk level are those of the band of the drawdown,
\* the multiplier is never below 0.50, and a drawdown of 12% gives 0.70 and
\* REDUCE.
BandsAsStated ==
    LET c == lastOp.call
    IN  c.op = "adjust_target" =>
            /\ <<c.size_multiplier, c.risk_level>> = BandOf(c.returned, portfolio.peak_value)
            /\ c.size_multiplier >= 50
            /\ c.returned * 100 = 12 * portfolio.peak_value =>
                   c.size_multiplier = 70 /\ c.risk_level = "REDUCE"

\* C21: get_drawdown_adjustment maps the drawdown to 1.00/NORMAL below 5%,
\* 0.85/CAUTIOUS below 10%, 0.70/REDUCE below 15%, 0.60/DEFENSIVE below 20% and
\* 0.50/MAX_DEFENSIVE otherwise, and the step's target holding count becomes
\* floor(target x multiplier).
C21_DrawdownBands ==
    LET c == lastOp.call
    IN  /\ BandsAsStated
        /\ c.op = "adjust_target" =>
               c.adjusted_target = (c.target_holdings * c.size_multiplier) \div 100

\* The part of C21 about the bands alone.
C21_BandsAlone == BandsAsStated

\* A drawdown of 12%: multiplier 0.70, REDUCE, and a target of 80 becomes 56.
C21_Drawdown12 ==
    /\ lastOp.call.op = "adjust_target"
    /\ lastOp.call.returned * 100 = 12 * portfolio.peak_value
    /\ lastOp.call.risk_level = "REDUCE"
    /\ lastOp.call.target_holdings = 80
    /\ lastOp.call.adjusted_target = 56

(***************************************************************************)
(* Position sizing in a run.                                               *)
(***************************************************************************)
\* The ATR of a ticker's snapshot series is undefined or not positive.
AtrInvalid(ticker) ==
    LET df == SnapshotDf(locals.period_stocks, ticker)
    IN  Len(df) < AtrPeriod
        \/ \A k \in (Len(df) - AtrPeriod + 1)..Len(df) : TrueRange(df, k) <= 0

\* C22: every buy of a run is sized by the strategy its flags select:
\* conviction-tiered under use_conviction_weighting, else ATR-adjusted under
\* use_atr_sizing, else 2.5% of the portfolio value; under ATR sizing a
\* ticker is sized at the fixed 2.5% exactly when its ATR is undefined or not
\* positive.
C22_SizingFixedPerRun ==
    \A k \in DOMAIN locals.buy_calls :
        LET b == locals.buy_calls[k]
            total == locals.total_portfolio_value
            fixed_shares == (total \div 40) \div (b.price * TicksPerSEK)
        IN  /\ b.sizing = (IF config.use_conviction_weighting THEN "conviction"
                           ELSE IF ~config.use_atr_sizing THEN "fixed percent"
                           ELSE IF AtrInvalid(b.ticker) THEN "atr fallback"
                           ELSE "atr")
            /\ b.sizing = "fixed percent" => b.amount = total \div 40
            /\ b.sizing = "atr fallback" =>
                   b.amount = fixed_shares * b.price * TicksPerSEK
            /\ b.sizing \in {"atr", "conviction"} =>
                   /\ b.amount % (b.price * TicksPerSEK) = 0
                   /\ b.amount * 20 <= total

\* A rebalance of a run under ATR sizing that has bought one stock at its ATR
\* weight and another, whose ATR is 0, at the fixed 2.5%.
C22_Witness ==
    /\ config.use_atr_sizing /\ ~config.use_conviction_weighting
    /\ \E k \in DOMAIN locals.buy_calls :
           locals.buy_calls[k].sizing = "atr fallback" /\ locals.buy_calls[k].returned
    /\ \E k \in DOMAIN locals.buy_calls :
           /\ locals.buy_calls[k].sizing = "atr" /\ locals.buy_calls[k].returned
           /\ locals.buy_calls[k].amount # 0

(***************************************************************************)
(* What a run returns.                                                     *)
(***************************************************************************)
\* C23: the final value the metrics bundle is computed on is the final
\* mark-to-market value of the portfolio after the last rebalance date's
\* trades: metrics.final_value = final_value, and total_return is the return
\* of that value on the initial capital.
C23_TerminalValue ==
    pc = "done" =>
        /\ result.metrics # <<>>
        /\ result.metrics.final_value = result.final_value
        /\ result.metrics.total_return =
               Rat((result.final_value - config.initial_capital) * 100,
                   config.initial_capital)

\* What the code returns as metrics.final_value: the value recorded on the
\* equity curve at the last date that had data, before that date's trades.
C23_MetricsOfLastCurvePoint ==
    pc = "done" =>
        /\ equity_curve # <<>>
        /\ result.metrics.final_value = equity_curve[Len(equity_curve)].value

\* A finished run that traded on its last rebalance date.
C23_TradedOnLastDate ==
    /\ pc = "done"
    /\ trade_log # <<>>
    /\ trade_log[Len(trade_log)].date = rebalance_dates[Len(rebalance_dates)]
    /\ result.metrics.final_value > result.final_value

(***************************************************************************)
(* The benchmark.                                                          *)
(***************************************************************************)
\* C24: when the fetch of the benchmark fails, the run does not raise and
\* goes through every rebalance date, under the simple and the dynamic
\* regime variants alike.
C24_BenchmarkNonFatal ==
    market.index = <<>> =>
        /\ pc # "AttributeError"
        /\ pc = "done" => i = Len(rebalance_dates) + 1

\* What the code does: without a benchmark the simple variant runs to the
\* end, every date being "neutral"; the dynamic variant raises at the first
\* date that has a snapshot.
C24_SimpleVariantSurvives ==
    (market.index = <<>> /\ ~config.use_dynamic_regime) =>
        /\ pc # "AttributeError"
        /\ locals.regime \in {"", "neutral"}
        /\ pc = "done" => i = Len(rebalance_dates) + 1

C24_DynamicVariantRaises ==
    (market.index = <<>> /\ config.use_dynamic_regime) =>
        /\ pc # "done"
        /\ pc = "AttributeError" => locals.period_stocks # <<>>

\* A run without a benchmark that has reached its end.
C24_DoneWithoutBenchmark ==
    market.index = <<>> /\ pc = "done" /\ trade_log # <<>>

(***************************************************************************)
(* The rebalance dates, checked under SpecDates.                           *)
(***************************************************************************)
InvalidConfig ==
    \/ config.rebalance_frequency \notin {"monthly", "weekly"}
    \/ config.start_date > config.end_date

\* C25: the generation of the dates terminates for every configuration, and
\* a configuration whose frequency is neither 'monthly' nor 'weekly', or
\* whose start_date is after its end_date, is rejected at the start of the
\* run: no date is generated for it, the run does not hang and does not fail
\* later.
C25_ConfigErrorsFailFast ==
    /\ pc # "never returns"
    /\ InvalidConfig => /\ pc \in {"start", "rejected"}
                        /\ rebalance_dates = <<>>

\* What the code does with a valid frequency and start_date <= end_date: the
\* call returns a list that is not empty, or raises ValueError.
C25_ValidConfigReturns ==
    ~InvalidConfig => /\ pc \in {"start", "dates", "ValueError"}
                      /\ pc = "dates" => rebalance_dates # <<>>

\* What the code does with start_date after end_date: an empty list, and the
\* run fails after its loop.
C25_LateStartFailsAtTheEnd ==
    config.start_date > config.end_date =>
        /\ pc \in {"start", "dates", "IndexError"}
        /\ rebalance_dates = <<>>

\* What the code does with an unknown frequency and start_date <= end_date.
C25_UnknownFrequencyHangs ==
    (config.rebalance_frequency \notin {"monthly", "weekly"}
        /\ config.start_date <= config.end_date)
    => pc \in {"start", "never returns"}

\* The first day of the calendar month after that of d.
FirstOfNextMonth(d) ==
    IF MonthOf(d) = 12 THEN (YearOf(d) + 1) * 10000 + 101
    ELSE YearOf(d) * 10000 + (MonthOf(d) + 1) * 100 + 1

\* C29: for every start date on or before the end date the schedule is
\* returned, is strictly increasing, starts at start_date and has no date
\* after end_date; weekly dates are exactly 7 days apart, and every monthly
\* date after the first is the first day of the calendar month following
\* its predecessor.
C29_RebalanceSchedule ==
    (~InvalidConfig /\ pc # "start") =>
        /\ pc = "dates"
        /\ rebalance_dates # <<>>
        /\ rebalance_dates[1] = config.start_date
        /\ \A k \in DOMAIN rebalance_dates : rebalance_dates[k] <= config.end_date
        /\ \A k \in 1..(Len(rebalance_dates) - 1) :
               /\ rebalance_dates[k] < rebalance_dates[k + 1]
               /\ config.rebalance_frequency = "weekly" =>
                      rebalance_dates[k + 1] = AddDays(rebalance_dates[k], 7)
               /\ config.rebalance_frequency = "monthly" =>
                      rebalance_dates[k + 1] = FirstOfNextMonth(rebalance_dates[k])

\* What the code does: the bounds and the weekly step are as stated for a
\* schedule that is returned; a monthly date keeps the day of the month of
\* start_date, and the call raises when a month has no such day.
C29_ScheduleAsCoded ==
    (~InvalidConfig /\ pc = "dates") =>
        /\ rebalance_dates # <<>>
        /\ rebalance_dates[1] = config.start_date
        /\ \A k \in DOMAIN rebalance_dates : rebalance_dates[k] <= config.end_date
        /\ \A k \in 1..(Len(rebalance_dates) - 1) :
               /\ rebalance_dates[k] < rebalance_dates[k + 1]
               /\ config.rebalance_frequency = "weekly" =>
                      rebalance_dates[k + 1] = AddDays(rebalance_dates[k], 7)
               /\ config.rebalance_frequency = "monthly" =>
                      /\ DayOf(rebalance_dates[k + 1]) = DayOf(config.start_date)
                      /\ rebalance_dates[k + 1] - DayOf(config.start_date) + 1
                             = FirstOfNextMonth(rebalance_dates[k])

C29_MonthlyFromTheFirst ==
    (~InvalidConfig /\ pc # "start" /\ config.rebalance_frequency = "monthly"
        /\ DayOf(config.start_date) = 1)
    => /\ pc = "dates"
       /\ \A k \in 1..(Len(rebalance_dates) - 1) :
              rebalance_dates[k + 1] = FirstOfNextMonth(rebalance_dates[k])

C29_RaisesOnShortMonth ==
    pc = "ValueError" =>
        /\ config.rebalance_frequency = "monthly"
        /\ DayOf(config.start_date) > 28

(***************************************************************************)
(* The dynamic regime inside a run, checked under Spec.                    *)
(***************************************************************************)
\* The regime information of the current date, once line 359 has run.
RegimeInfo == GetMarketRegimeDynamic(market.index, locals.period_stocks, RebalDate)

AfterDynamicRegime ==
    /\ config.use_dynamic_regime
    /\ pc \in {"screen", "sell", "buy", "end"}
    /\ locals.period_stocks # <<>>

\* The tickers of the date's snapshot whose last close is above their own
\* slow moving average.
AboveOwnMA200(period_stocks) ==
    {k \in DOMAIN period_stocks :
        LET df == period_stocks[k].df
        IN  /\ HasMA(df, Len(df), SlowWindow)
            /\ LastClose(df) * SlowWindow > WindowSum(df, Len(df), SlowWindow)}

\* C26: in a dynamic-regime run the breadth of a date is the fraction of
\* the tickers of that date's snapshot whose last close is above their own
\* 200-day average, and it scores 30 points when above 70%.
C26_BreadthInBacktest ==
    AfterDynamicRegime =>
        /\ RegimeInfo.total_stocks = Len(locals.period_stocks)
        /\ RegimeInfo.stocks_above_ma200 = Cardinality(AboveOwnMA200(locals.period_stocks))
        /\ (Cardinality(AboveOwnMA200(locals.period_stocks)) * 100
                > 70 * Len(locals.period_stocks)) => RegimeInfo.breadth_points = 30

\* What the code does: the frames of the snapshot have no 'MA200' column, so
\* no ticker is counted, the breadth is 0 and the regime score stays under
\* 75.
C26_BreadthIsZero ==
    AfterDynamicRegime =>
        /\ RegimeInfo.total_stocks = 0
        /\ RegimeInfo.breadth_points = 0
        /\ RegimeInfo.regime_score <= 70
        /\ locals.regime # "STRONG_BULL"

\* A date of a dynamic run where every ticker of the snapshot is above its
\* own average and the index factors are at their best.
C26_AllAboveAndCalm ==
    /\ AfterDynamicRegime
    /\ Cardinality(AboveOwnMA200(locals.period_stocks)) = Len(locals.period_stocks)
    /\ RegimeInfo.regime_score = 70

(***************************************************************************)
(* The composite score, checked under SpecScore.                           *)
(***************************************************************************)
\* The fast average crossed from at or above the slow average to below it
\* within the last CrossLookback bars.
MA50CrossedBelowMA200(df) ==
    \E k \in (Len(df) - CrossLookback)..(Len(df) - 1) :
        /\ HasMA(df, k, SlowWindow)
        /\ WindowSum(df, k, FastWindow) * SlowWindow
               >= WindowSum(df, k, SlowWindow) * FastWindow
        /\ WindowSum(df, k + 1, FastWindow) * SlowWindow
               < WindowSum(df, k + 1, SlowWindow) * FastWindow

ScoredAboveMA200 == pc = "scored" /\ result.above_ma200

\* C27: for every series, benchmark returns, fundamentals and flags the
\* composite score is in [0, 150]; it is 0 when the slow average is
\* undefined and 0 when the price is not above it.
C27_ScoreBounds ==
    pc = "scored" =>
        /\ result.score >= 0 /\ result.score <= 1500
        /\ ~result.above_ma200 => result.score = 0

\* What the code does: the score is at most 150, and it is not negative
\* without the indicator confirmation; the two sentinels are as stated.
C27_ScoreBoundsAsCoded ==
    pc = "scored" =>
        /\ result.score <= 1500
        /\ ~locals.use_indicator_confirmation => result.score > 0 \/ ~result.above_ma200
        /\ ~HasMA(locals.df, Len(locals.df), SlowWindow) => result.score = 0
        /\ (HasMA(locals.df, Len(locals.df), SlowWindow)
               /\ LastClose(locals.df) * SlowWindow
                      <= WindowSum(locals.df, Len(locals.df), SlowWindow))
           => result.score = 0 /\ ~result.above_ma200

\* A stock above its slow average whose score with the indicator
\* confirmation is negative.
C27_NegativeScore ==
    ScoredAboveMA200 /\ locals.use_indicator_confirmation /\ result.score < 0

\* C28: a stock that passes the price > slow-average gate has the death
\* cross flag, which comes with the penalty of 20 points, exactly when its fast
\* average crossed from at or above its slow average to below it within the
\* last bars of the lookback.
C28_DeathCrossPenalty ==
    ScoredAboveMA200 =>
        (result.death_cross <=> MA50CrossedBelowMA200(locals.df))

\* What the code does: the flag, and the penalty, follow the close crossing
\* from at or above the slow average to below it within the lookback.
C28_PenaltyOnPriceCross ==
    ScoredAboveMA200 =>
        (result.death_cross <=> CrossedBelowMA200(locals.df))

\* The flag without a cross of the averages, and a cross of the averages
\* without the flag.
C28_FlagWithoutCross ==
    ScoredAboveMA200 /\ result.death_cross /\ ~MA50CrossedBelowMA200(locals.df)

C28_CrossWithoutFlag ==
    ScoredAboveMA200 /\ ~result.death_cross /\ MA50CrossedBelowMA200(locals.df)

(***************************************************************************)
(* The dividends of a run, checked under Spec.                             *)
(***************************************************************************)
\* What the events of the provider with PrecedingDate < ex_date <= RebalDate
\* pay on the holdings h.
CreditDue(h) ==
    CreditOf(EventsDue(h, market.dividends, PrecedingDate, RebalDate), h, market.dividends)

Collecting == pc = "collect" /\ i <= Len(rebalance_dates)

\* C30: the collection at a rebalance date covers the events whose ex-date
\* is after the preceding rebalance date and on or before this one, so each
\* event is credited at most once, at the first rebalance date on or after
\* its ex-date; it credits shares x amount for the shares held since the
\* trades of the preceding date, which are the shares held on the ex-date,
\* and nothing for a ticker that is not held; dividends are credited nowhere
\* else, and the holdings change only in a step's trades, after its
\* collection.
C30_DividendsOnce ==
    /\ [](Collecting => prev_rebal_date = PrecedingDate)
    /\ [][Collecting =>
             /\ portfolio'.total_dividends
                    = portfolio.total_dividends + CreditDue(portfolio.holdings)
             /\ portfolio'.cash = portfolio.cash + CreditDue(portfolio.holdings)
             /\ portfolio'.holdings = portfolio.holdings]_vars
    /\ [][pc # "collect" => portfolio'.total_dividends = portfolio.total_dividends]_vars
    /\ [][pc \notin {"sell", "buy"} => portfolio'.holdings = portfolio.holdings]_vars

\* The collection of 2025-12-01 has credited A's dividend of 2025-11-15 to a
\* portfolio that holds A and not B; B's dividend of 2025-12-15 is due at
\* the next date only.
C30_Witness ==
    /\ pc = "tax"
    /\ RebalDate = 20251201
    /\ HeldTickers(portfolio) = {"A"}
    /\ locals.period_dividends = Position(portfolio, "A").shares * 2 * TicksPerSEK
    /\ portfolio.total_dividends = locals.period_dividends

\* A finished run that was credited both A's dividend and, at a later date,
\* B's.
C30_BothCredited ==
    /\ pc = "done"
    /\ \E j, k \in DOMAIN equity_curve :
           /\ j < k
           /\ equity_curve[j].dividends > 0
           /\ equity_curve[k].dividends > equity_curve[j].dividends

====
